---- MODULE Spec2Model ----
(***************************************************************************)
(* Verification model of the CHRONOS pipeline core:                        *)
(*   - GeminiRateLimiter (chronos/app/gemini_rate_limiter.py)              *)
(*   - the CLI orchestrator main() and the web orchestrator                *)
(*     run_chronos_pipeline()                                              *)
(*   - Phase2ContextBuilder._parse_graph_elements                          *)
(* Time is counted in ticks of 0.1 s, so that the jitter of                *)
(* random.uniform(0.1, 0.9) is a whole number of ticks.                    *)
(***************************************************************************)
EXTENDS Integers, Sequences, FiniteSets, TLC

VARIABLES
    \* ---- GeminiRateLimiter instance and the wall clock
    cfg,                \* initial_delay, max_delay, base_delay, max_retries
    request_count,      \* self.request_count
    last_request_time,  \* self.last_request_time
    now,                \* time.time()
    \* ---- the frame of one generate_content invocation
    rl_pc,              \* "idle" | "attempt" | "except" | "returned" | "raised"
    ma_arg,             \* the max_attempts argument of the invocation
    max_attempts,       \* the local max_attempts after line 166
    attempt,            \* the loop variable
    caught,             \* the exception bound to e in the except clause
    gc_result,          \* how the invocation ended
    attempt_log,        \* history: the outcome of every model call of the invocation
    sleep_log,          \* history: every time.sleep of the invocation
    invocations,        \* number of finished invocations
    pace_log,           \* history: attempt and time of every _enforce_request_delay call
    at_entry,           \* history: request_count and last_request_time at line 166
    \* ---- one pipeline run: main() or run_chronos_pipeline()
    orch,               \* "cli" | "web": which orchestrator runs
    env,                \* api_key: GOOGLE_API_KEY is set; neo4j_up: the store is reachable
    p_pc,               \* position of the orchestrator
    phase1_brainstorm,  \* "null" | "text"
    phase2_results,     \* None, or the dict run_phase2 returned
    p3_local,           \* the results dict inside Phase3Distiller.run_phase3
    phase3_results,     \* None, or the dict of lens and synthesis artifacts
    phase4_results,     \* None, or the dict run_phase4 returned
    status,             \* processing_status[unique_id] (web)
    cli_report,         \* what main() printed last about the run (cli)
    exec_log,           \* history: every stage executor invoked, in order
    raised_log,         \* history: the executors that raised
    storage,            \* the executors whose output file has been written
    status_log,         \* history: every record written to processing_status[unique_id]
    response,           \* what the last GET /results/<unique_id> returned (web)
    \* ---- one call of Phase2ContextBuilder._parse_graph_elements
    g_decls,            \* history: the declarations the LLM output was written from
    llm_output,         \* the llm_output argument, a sequence of lexemes
    g_pc,               \* "idle" | "ready" | "parsed" | "other" | "reparsed" | "reparsed_after_other"
    graph_element,      \* the GraphElement the most recent call returned
    first_element,      \* history: the GraphElement the first call on llm_output returned
    \* ---- threads that call generate_content on one shared GeminiRateLimiter
    t_pc,               \* per thread: its position in generate_content
    t_attempt,          \* per thread: the loop variable attempt
    t_wake,             \* per thread: when its time.sleep is over
    t_cnt,              \* per thread: the request_count it loaded for += 1
    acquire_log,        \* history: the last_request_time each _enforce_request_delay stored
    call_log,           \* history: thread and start time of every model call
    \* ---- the module-level limiter of gemini_rate_limiter.py and its factory
    rate_limiter,       \* the global _rate_limiter: None, or a GeminiRateLimiter
    f_prev,             \* history: the global limiter before the last factory call
    f_kwargs,           \* history: the keyword arguments of the last get_rate_limiter call
    f_returned,         \* history: the limiter that call returned, as it was on return
    f_call,             \* history: the last call on the global limiter and its retries
    \* ---- one call of _extract_retry_delay or of _calculate_delay
    err_message,        \* the error_message argument, a sequence of words
    arg_attempt,        \* the attempt argument
    fn_pc,              \* "idle" | "ready" | "extracted" | "calculated"
    fn_result,          \* what the call returned
    \* ---- the web server: uploads, their pipeline threads, the history file
    clock_second,       \* datetime.now(), to the second
    unique_id,          \* per upload: the unique_id upload_file computed
    processing_status,  \* the dict processing_status: unique_id -> record
    u_pc,               \* per upload: "none" | "running" | "completed" | "loaded" |
                        \*             "writing" | "done"
    h_history,          \* per upload: the local history of save_analysis_to_history
    history_file,       \* results/analysis_history.json
    completed           \* history: the entries saved, most recently saved first

rl_vars == <<cfg, request_count, last_request_time, now, rl_pc, ma_arg, max_attempts,
             attempt, caught, gc_result, attempt_log, sleep_log, invocations, pace_log,
             at_entry>>

p_vars == <<orch, env, p_pc, phase1_brainstorm, phase2_results, p3_local, phase3_results,
            phase4_results, status, cli_report, exec_log, raised_log, storage,
            status_log, response>>

g_vars == <<g_decls, llm_output, g_pc, graph_element, first_element>>

t_vars == <<t_pc, t_attempt, t_wake, t_cnt, acquire_log, call_log>>

f_vars == <<rate_limiter, f_prev, f_kwargs, f_returned, f_call>>

e_vars == <<err_message, arg_attempt, fn_pc, fn_result>>

u_vars == <<clock_second, unique_id, processing_status, u_pc, h_history, history_file,
            completed>>

vars == <<rl_vars, p_vars, g_vars, t_vars, f_vars, e_vars, u_vars>>

-----------------------------------------------------------------------------
(* Bounds of the model *)

MaxRetriesBound == 2
MaxInvocations == 1
MaxOverride == 1

(* The clock: ticks of a tenth of a second, and its reading at the start *)

TicksPerSecond == 10
StartTime == 1000

-----------------------------------------------------------------------------
(* Helpers *)

Max(a, b) == IF a >= b THEN a ELSE b
Min(a, b) == IF a <= b THEN a ELSE b

RECURSIVE Pow2(_)
Pow2(n) == IF n <= 0 THEN 1 ELSE 2 * Pow2(n - 1)

RECURSIVE SumSeq(_)
SumSeq(s) == IF s = <<>> THEN 0 ELSE Head(s) + SumSeq(Tail(s))

\* Optional[int]: None, or an integer
None == [some |-> FALSE, v |-> 0]
Some(k) == [some |-> TRUE, v |-> k]
\* Python truthiness of an Optional number: None and 0 are falsy
Truthy(x) == x.some /\ x.v # 0

-----------------------------------------------------------------------------
(* Error texts: str(e) as a sequence of words.  A word carries its spelling *)
(* and, for a delay phrase, the number of seconds it names.                 *)

Word(w) == [w |-> w, n |-> 0]
DelayPhrase(w, n) == [w |-> w, n |-> n]

EmptyResponseText == <<Word("Empty or invalid response from Gemini API")>>
MaxAttemptsText == <<Word("Maximum retry attempts exceeded")>>

ErrTexts ==
    { <<Word("429")>>,
      <<Word("Quota"), DelayPhrase("\"retryDelay\": \"Ns\"", 3)>>,
      <<Word("503 unavailable")>>,
      <<Word("resource_exhausted")>>,
      <<Word("429"), DelayPhrase("\"retryDelay\": \"Ns\"", 0)>> }

\* str.lower() on the spellings of the vocabulary
Lower(w) ==
    CASE w = "Quota" -> "quota"
      [] w = "QUOTA" -> "quota"
      [] w = "Rate Limit" -> "rate limit"
      [] w = "Too Many Requests" -> "too many requests"
      [] w = "RESOURCE_EXHAUSTED" -> "resource_exhausted"
      [] w = "\"retryDelay\": \"Ns\"" -> "\"retrydelay\": \"ns\""
      [] w = "\"retryDelay\": N" -> "\"retrydelay\": n"
      [] w = "retryAfter: N" -> "retryafter: n"
      [] w = "retryafter: N" -> "retryafter: n"
      [] w = "Retry-After: N" -> "retry-after: n"
      [] w = "N seconds" -> "n seconds"
      [] w = "N second" -> "n seconds"
      [] OTHER -> w

\* marker in error_str
Contains(text, marker) == \E i \in 1..Len(text) : text[i].w = marker
\* marker in error_str.lower()
ContainsLower(text, marker) == \E i \in 1..Len(text) : Lower(text[i].w) = marker

is_rate_limit(error_str) ==
    \/ Contains(error_str, "429")
    \/ Contains(error_str, "RESOURCE_EXHAUSTED")
    \/ ContainsLower(error_str, "quota")
    \/ ContainsLower(error_str, "rate limit")
    \/ ContainsLower(error_str, "too many requests")

\* re.search(pattern, error_message, re.IGNORECASE): the leftmost match
SearchIgnoreCase(pattern, text) ==
    LET hits == {i \in 1..Len(text) : Lower(text[i].w) = Lower(pattern)}
    IN  IF hits = {} THEN None
        ELSE Some(text[CHOOSE i \in hits : \A j \in hits : i <= j].n)

patterns_Reversed ==
    << "Retry-After: N", "retryAfter: N", "\"retryDelay\": N", "\"retryDelay\": \"Ns\"" >>

patterns ==
    << "\"retryDelay\": \"Ns\"", "\"retryDelay\": N", "retryAfter: N", "Retry-After: N" >>

RECURSIVE FirstPattern(_, _)
FirstPattern(k, text) ==
    IF k > Len(patterns) THEN SearchIgnoreCase("N seconds", text)
    ELSE IF SearchIgnoreCase(patterns[k], text).some
         THEN SearchIgnoreCase(patterns[k], text)
         ELSE FirstPattern(k + 1, text)

\* The suggested delay in seconds, or None
extract_retry_delay(error_message) == FirstPattern(1, error_message)

handle_rate_limit_error_BaseOnly(error_str) == cfg.base_delay

\* The wait in ticks
handle_rate_limit_error(error_str) ==
    LET server_delay == extract_retry_delay(error_str)
    IN  IF Truthy(server_delay)
        THEN Max(server_delay.v * TicksPerSecond, cfg.base_delay)
        ELSE cfg.base_delay

\* random.uniform(0.1, 0.9), in ticks
JitterSet == {1, 9}

\* line 73: the local base_delay, the delay before jitter
exponential_backoff(a) == cfg.initial_delay * Pow2(a)

calculate_delay_Uncapped(a, jitter) == exponential_backoff(a) + jitter

calculate_delay(a, jitter) ==
    Min(exponential_backoff(a) + jitter, cfg.max_delay)

-----------------------------------------------------------------------------
(* The state of a pipeline run before it starts *)

NoDict2 == [present |-> FALSE, graph_element |-> "null", summary |-> "null"]
NoDict3 == [present |-> FALSE, lens_a |-> "null", lens_b |-> "null", lens_c |-> "null",
            synthesis |-> "null"]
NoDict4 == [present |-> FALSE, questions |-> "null", ranking |-> "null", summary |-> "null"]
NoStatus == [status |-> "absent", phase |-> "absent", progress |-> -1, error |-> "absent",
             hypotheses |-> "absent"]

\* No request to /results yet
NoResponse == [code |-> 0, body |-> NoStatus]

NoGraph == [nodes |-> <<>>, relationships |-> <<>>]

Threads == {"t1", "t2"}

\* No thread has been started
TIdle ==
    /\ t_pc = [t \in Threads |-> "idle"]
    /\ t_attempt = [t \in Threads |-> 0]
    /\ t_wake = [t \in Threads |-> 0]
    /\ t_cnt = [t \in Threads |-> 0]
    /\ acquire_log = <<>>
    /\ call_log = <<>>

\* None, in the place of a GeminiRateLimiter
NoLimiter ==
    [present |-> FALSE, settings |-> <<>>, request_count |-> 0, last_request_time |-> 0]

\* **kwargs of a call without keyword arguments
NoKwargs == [k \in {} |-> 0]

\* line 259: _rate_limiter = None, and no factory call yet
FIdle ==
    /\ rate_limiter = NoLimiter
    /\ f_prev = NoLimiter
    /\ f_kwargs = NoKwargs
    /\ f_returned = NoLimiter
    /\ f_call = [op |-> "none", retries |-> 0]

\* What a call that has not returned has returned
NoResult == [delay |-> None, wait |-> 0, jitter |-> 0]

\* No call of a delay function in progress
EIdle ==
    /\ err_message = <<>>
    /\ arg_attempt = 0
    /\ fn_pc = "idle"
    /\ fn_result = NoResult

MaxRuns == 3
MaxSecond == 2

\* The uploads the server receives
Runs == 1..MaxRuns

NoId == [name |-> "", ts |-> 0]
NoRecord == [status |-> "absent", progress |-> -1, filename |-> "", unique_id |-> NoId]

\* The file names uploaded, and the ids they can get
UploadNames == {"a-b.pdf", "a_b.pdf"}
UniqueIds == [name : {"a_b"}, ts : 1..MaxSecond]

\* The server has started: line 60, and no history file
UIdle ==
    /\ clock_second = 1
    /\ unique_id = [r \in Runs |-> NoId]
    /\ processing_status = [u \in UniqueIds |-> NoRecord]
    /\ u_pc = [r \in Runs |-> "none"]
    /\ h_history = [r \in Runs |-> <<>>]
    /\ history_file = [valid |-> TRUE, entries |-> <<>>]
    /\ completed = <<>>

\* No extraction in progress
GIdle ==
    /\ g_decls = <<>>
    /\ llm_output = <<>>
    /\ g_pc = "idle"
    /\ graph_element = NoGraph
    /\ first_element = NoGraph

PIdle ==
    /\ orch = "none"
    /\ env = [api_key |-> TRUE, neo4j_up |-> TRUE]
    /\ p_pc = "idle"
    /\ phase1_brainstorm = "null"
    /\ phase2_results = NoDict2
    /\ p3_local = NoDict3
    /\ phase3_results = NoDict3
    /\ phase4_results = NoDict4
    /\ status = NoStatus
    /\ cli_report = "none"
    /\ exec_log = <<>>
    /\ raised_log = <<>>
    /\ storage = {}
    /\ status_log = <<>>
    /\ response = NoResponse

-----------------------------------------------------------------------------
(* GeminiRateLimiter.__init__ *)

Configs ==
    [ initial_delay : {20},
      max_delay     : {50},
      base_delay    : {10, 120},
      max_retries   : 0..MaxRetriesBound ]

RLInit ==
    /\ cfg \in Configs
    /\ request_count = 0
    /\ last_request_time = 0
    /\ now = StartTime
    /\ rl_pc = "idle"
    /\ ma_arg = None
    /\ max_attempts = 0
    /\ attempt = 0
    /\ caught = [id |-> 0, text |-> <<>>]
    /\ gc_result = [kind |-> "none", exc |-> [id |-> 0, text |-> <<>>]]
    /\ attempt_log = <<>>
    /\ sleep_log = <<>>
    /\ invocations = 0
    /\ pace_log = <<>>
    /\ at_entry = [request_count |-> 0, last_request_time |-> 0]

-----------------------------------------------------------------------------
(* generate_content *)

ResolveMaxAttempts_OffByOne(ma) == IF Truthy(ma) THEN ma.v + 1 ELSE cfg.max_retries + 1

\* max_attempts = max_attempts or self.max_retries
ResolveMaxAttempts(ma) == IF Truthy(ma) THEN ma.v ELSE cfg.max_retries

MaxAttemptsArgs == {None} \cup {Some(k) : k \in 0..MaxOverride}

\* lines 166-172: entry, and the first test of the for loop
GC_Call(ma) ==
    /\ rl_pc = "idle"
    /\ invocations < MaxInvocations
    /\ ma_arg' = ma
    /\ max_attempts' = ResolveMaxAttempts(ma)
    /\ attempt' = 0
    /\ attempt_log' = <<>>
    /\ sleep_log' = <<>>
    /\ caught' = [id |-> 0, text |-> <<>>]
    /\ pace_log' = <<>>
    /\ at_entry' = [request_count |-> request_count, last_request_time |-> last_request_time]
    /\ IF ResolveMaxAttempts(ma) + 1 > 0
       THEN /\ rl_pc' = "attempt"
            /\ gc_result' = [kind |-> "none", exc |-> [id |-> 0, text |-> <<>>]]
       ELSE \* an empty range: line 235
            /\ rl_pc' = "raised"
            /\ gc_result' = [kind |-> "raise", exc |-> [id |-> 0, text |-> MaxAttemptsText]]
    /\ UNCHANGED <<cfg, request_count, last_request_time, now, invocations>>
    /\ UNCHANGED <<p_vars, g_vars, t_vars, f_vars, e_vars, u_vars>>

Paced_Always(a) == TRUE

\* line 175: if attempt > 0
Paced(a) == a > 0

\* _enforce_request_delay: the time slept
PaceWait == IF now - last_request_time < cfg.base_delay
            THEN cfg.base_delay - (now - last_request_time)
            ELSE 0

\* What model.generate_content can do on one call
ModelOutcomes ==
    {[kind |-> "text", text |-> <<>>], [kind |-> "empty_text", text |-> <<>>],
     [kind |-> "no_response", text |-> <<>>]}
    \cup {[kind |-> "raises", text |-> t] : t \in ErrTexts}

ResponseInvalid_NoResponseOnly(o) == o.kind = "no_response"

\* line 194: not response or not hasattr(response, 'text') or not response.text
ResponseInvalid(o) == o.kind \in {"empty_text", "no_response"}

\* The exception the try body ends with, for a call that did not succeed
AttemptException(o, id) ==
    IF o.kind = "raises" THEN [id |-> id, text |-> o.text]
    ELSE [id |-> id, text |-> EmptyResponseText]

\* lines 173-200: the try body of one iteration
GC_Attempt(o) ==
    /\ rl_pc = "attempt"
    /\ LET paced == Paced(attempt)
           wait == IF paced THEN PaceWait ELSE 0
           id == Len(attempt_log) + 1
       IN  /\ now' = now + wait
           /\ pace_log' = IF paced
                          THEN Append(pace_log, [attempt |-> attempt, at |-> now + wait])
                          ELSE pace_log
           /\ last_request_time' = IF paced THEN now + wait ELSE last_request_time
           /\ request_count' = IF paced THEN request_count + 1 ELSE request_count
           /\ sleep_log' = IF paced /\ wait > 0
                           THEN Append(sleep_log, [why |-> "pace", attempt |-> attempt, d |-> wait])
                           ELSE sleep_log
           /\ IF o.kind # "raises" /\ ~ResponseInvalid(o)
              THEN /\ attempt_log' = Append(attempt_log,
                          [attempt |-> attempt, kind |-> o.kind,
                           exc |-> [id |-> 0, text |-> <<>>]])
                   /\ rl_pc' = "returned"
                   /\ gc_result' = [kind |-> "return", exc |-> [id |-> 0, text |-> <<>>]]
                   /\ caught' = caught
              ELSE /\ attempt_log' = Append(attempt_log,
                          [attempt |-> attempt, kind |-> o.kind,
                           exc |-> AttemptException(o, id)])
                   /\ rl_pc' = "except"
                   /\ caught' = AttemptException(o, id)
                   /\ gc_result' = gc_result
    /\ UNCHANGED <<cfg, ma_arg, max_attempts, attempt, invocations, at_entry>>
    /\ UNCHANGED <<p_vars, g_vars, t_vars, f_vars, e_vars, u_vars>>

RaisedAtLastAttempt_Wrapped(e) == [id |-> 0, text |-> MaxAttemptsText]

\* The exception raised at line 232
RaisedAtLastAttempt(e) == e

\* lines 202-232: the except clause of one iteration
GC_Except(jitter) ==
    /\ rl_pc = "except"
    /\ LET error_str == caught.text
           rate == is_rate_limit(error_str)
           delay == IF rate THEN handle_rate_limit_error(error_str)
                    ELSE IF attempt < max_attempts THEN calculate_delay(attempt, jitter)
                    ELSE 0
           sleeps == rate \/ attempt < max_attempts
       IN  /\ now' = now + delay
           /\ sleep_log' = IF sleeps
                           THEN Append(sleep_log,
                                  [why |-> IF rate THEN "rate_limit" ELSE "backoff",
                                   attempt |-> attempt, d |-> delay])
                           ELSE sleep_log
           /\ IF attempt = max_attempts
              THEN /\ rl_pc' = "raised"
                   /\ gc_result' = [kind |-> "raise", exc |-> RaisedAtLastAttempt(caught)]
                   /\ attempt' = attempt
              ELSE /\ rl_pc' = "attempt"
                   /\ attempt' = attempt + 1
                   /\ gc_result' = gc_result
    /\ UNCHANGED <<cfg, request_count, last_request_time, ma_arg, max_attempts, caught,
                   attempt_log, invocations, pace_log, at_entry>>
    /\ UNCHANGED <<p_vars, g_vars, t_vars, f_vars, e_vars, u_vars>>

\* The caller receives the response or the exception
GC_Done ==
    /\ rl_pc \in {"returned", "raised"}
    /\ rl_pc' = "idle"
    /\ invocations' = invocations + 1
    /\ UNCHANGED <<cfg, request_count, last_request_time, now, ma_arg, max_attempts, attempt,
                   caught, gc_result, attempt_log, sleep_log, pace_log, at_entry>>
    /\ UNCHANGED <<p_vars, g_vars, t_vars, f_vars, e_vars, u_vars>>

RLNext ==
    \/ \E ma \in MaxAttemptsArgs : GC_Call(ma)
    \/ \E o \in ModelOutcomes : GC_Attempt(o)
    \/ \E j \in JitterSet : GC_Except(j)
    \/ GC_Done

InitRetry == RLInit /\ PIdle /\ GIdle /\ TIdle /\ FIdle /\ EIdle /\ UIdle

SpecRetry == InitRetry /\ [][RLNext]_vars

-----------------------------------------------------------------------------
(* The pipeline orchestrators.  A stage executor either returns ("ok") or   *)
(* raises ("raise"); the constructors raise when GOOGLE_API_KEY is missing  *)
(* (all phases) or when the graph store cannot be reached (Phase 2).        *)

Outcomes == {"ok", "raise"}

RLIdle ==
    /\ cfg = [initial_delay |-> 20, max_delay |-> 3000, base_delay |-> 120, max_retries |-> 5]
    /\ request_count = 0
    /\ last_request_time = 0
    /\ now = StartTime
    /\ rl_pc = "idle"
    /\ ma_arg = None
    /\ max_attempts = 0
    /\ attempt = 0
    /\ caught = [id |-> 0, text |-> <<>>]
    /\ gc_result = [kind |-> "none", exc |-> [id |-> 0, text |-> <<>>]]
    /\ attempt_log = <<>>
    /\ sleep_log = <<>>
    /\ invocations = 0
    /\ pace_log = <<>>
    /\ at_entry = [request_count |-> 0, last_request_time |-> 0]

\* upload_file has stored the run's record and started the thread (web);
\* main() has read its input and is about to run the pipeline (cli)
PInit ==
    /\ orch \in {"cli", "web"}
    /\ env \in [api_key : BOOLEAN, neo4j_up : BOOLEAN]
    /\ p_pc = IF orch = "web" THEN "w_init" ELSE "c_ocr"
    /\ phase1_brainstorm = "null"
    /\ phase2_results = NoDict2
    /\ p3_local = NoDict3
    /\ phase3_results = NoDict3
    /\ phase4_results = NoDict4
    /\ status = IF orch = "web"
                THEN [status |-> "processing", phase |-> "initializing", progress |-> 5,
                      error |-> "absent", hypotheses |-> "absent"]
                ELSE NoStatus
    /\ cli_report = "none"
    /\ exec_log = <<>>
    /\ raised_log = <<>>
    /\ storage = {}
    /\ status_log = IF orch = "web" THEN <<status>> ELSE <<>>
    /\ response = NoResponse

\* How an executor calls the remote model: through rate_limited_request, by
\* self.model.generate_content, or not at all
ModelCallOf(name) ==
    CASE name \in {"extract_knowledge_graph", "generate_phase2_summary"} -> "rate_limited_request"
      [] name \in {"generate_and_save", "lens_a", "lens_b", "lens_c", "generate_synthesis",
                   "generate_research_questions", "rank_and_select_questions",
                   "generate_executive_summary"} -> "model.generate_content"
      [] OTHER -> "none"

WritesFile_NotBrainstorm(name) ==
    name \in {"generate_phase2_summary", "lens_a", "lens_b", "lens_c", "generate_synthesis",
              "generate_research_questions", "rank_and_select_questions",
              "generate_executive_summary"}

\* The executors that write their raw output to a file before they return
WritesFile(name) ==
    name \in {"generate_and_save", "generate_phase2_summary", "lens_a", "lens_b", "lens_c",
              "generate_synthesis", "generate_research_questions",
              "rank_and_select_questions", "generate_executive_summary"}

\* The files written in a step: those of the executors it invoked that did not
\* raise (the write is in the executor's try block, before its return)
WriteArtifacts ==
    storage' = storage \cup
        { exec_log'[i].name : i \in
            { k \in (Len(exec_log) + 1)..Len(exec_log') :
                /\ WritesFile(exec_log'[k].name)
                /\ \A m \in (Len(raised_log) + 1)..Len(raised_log') :
                       raised_log'[m] # exec_log'[k].name } }

Invoked(name, arg) == Append(exec_log, [name |-> name, arg |-> arg])
Ran(name) == \E i \in 1..Len(exec_log) : exec_log[i].name = name
Raised(name) == \E i \in 1..Len(raised_log) : raised_log[i] = name

\* Phase2ContextBuilder.run_phase2: the dict it returns.  graph_element is set
\* before store_in_neo4j is called; a failing store leaves it set.
run_phase2(kg, store, summary) ==
    [present |-> TRUE,
     graph_element |-> IF kg = "ok" THEN "graph" ELSE "null",
     summary |-> IF summary = "ok" THEN "text" ELSE "null"]

\* A variant of run_phase2 with one try block around both parts: a failed
\* extraction skips the summary
run_phase2_calls_OneTry(kg) ==
    <<[name |-> "extract_knowledge_graph", arg |-> "text"]>>
    \o (IF kg = "ok" THEN <<[name |-> "store_in_neo4j", arg |-> "graph"],
                            [name |-> "generate_phase2_summary", arg |-> "text"]>>
        ELSE <<>>)

\* The executors run_phase2 invokes, in order
run_phase2_calls(kg) ==
    <<[name |-> "extract_knowledge_graph", arg |-> "text"]>>
    \o (IF kg = "ok" THEN <<[name |-> "store_in_neo4j", arg |-> "graph"]>> ELSE <<>>)
    \o <<[name |-> "generate_phase2_summary", arg |-> "text"]>>

run_phase2_raises(kg, store, summary) ==
    (IF kg # "ok" THEN <<"extract_knowledge_graph">>
     ELSE IF store # "ok" THEN <<"store_in_neo4j">> ELSE <<>>)
    \o (IF summary # "ok" THEN <<"generate_phase2_summary">> ELSE <<>>)

\* Phase4Formulator.run_phase4: the dict it returns
run_phase4(q, r, s) ==
    [present |-> TRUE,
     questions |-> IF q = "ok" THEN "text" ELSE "null",
     ranking |-> IF q = "ok" /\ r = "ok" THEN "text" ELSE "null",
     summary |-> IF q = "ok" /\ r = "ok" /\ s = "ok" THEN "text" ELSE "null"]

run_phase4_calls(q, r) ==
    <<[name |-> "run_phase4", arg |-> "text"],
      [name |-> "generate_research_questions", arg |-> "text"]>>
    \o (IF q = "ok" THEN <<[name |-> "rank_and_select_questions", arg |-> "text"]>> ELSE <<>>)
    \o (IF q = "ok" /\ r = "ok"
        THEN <<[name |-> "generate_executive_summary", arg |-> "text"]>> ELSE <<>>)

run_phase4_raises(q, r, s) ==
    IF q # "ok" THEN <<"generate_research_questions">>
    ELSE (IF r # "ok" THEN <<"rank_and_select_questions">>
          ELSE IF s # "ok" THEN <<"generate_executive_summary">> ELSE <<>>)

AllLensesCompleted_Any(r) == r.lens_a # "null" \/ r.lens_b # "null" \/ r.lens_c # "null"

\* results["lens_a"] and results["lens_b"] and results["lens_c"]
AllLensesCompleted(r) == r.lens_a # "null" /\ r.lens_b # "null" /\ r.lens_c # "null"

AfterLens_SkipRestOnRaise(next, o) ==
    IF o = "ok" THEN next ELSE IF orch = "web" THEN "w_synthesis" ELSE "r3_synthesis"

\* The statement after the try/except around a lens: the except clause only prints
AfterLens(next, o) == next

LensField(r, l, v) ==
    CASE l = "lens_a" -> [r EXCEPT !.lens_a = v]
      [] l = "lens_b" -> [r EXCEPT !.lens_b = v]
      [] l = "lens_c" -> [r EXCEPT !.lens_c = v]

-----------------------------------------------------------------------------
(* main() *)

\* The outer except of main(): "PIPELINE FAILED"
CliFail ==
    /\ cli_report' = "pipeline_failed"
    /\ p_pc' = "done"

\* lines 188-209: OCR and saving the extracted text
Cli_OCR(o) ==
    /\ p_pc = "c_ocr"
    /\ exec_log' = Invoked("process_file", "file")
    /\ IF o = "ok"
       THEN /\ p_pc' = "c_phase1"
            /\ UNCHANGED <<cli_report, raised_log>>
       ELSE /\ CliFail
            /\ raised_log' = Append(raised_log, "process_file")
    /\ UNCHANGED <<orch, env, phase1_brainstorm, phase2_results, p3_local, phase3_results,
                   phase4_results, status>>
    /\ WriteArtifacts
    /\ UNCHANGED <<status_log, response>>
    /\ UNCHANGED <<rl_vars, g_vars, t_vars, f_vars, e_vars, u_vars>>

CliPhase1ExceptNext_Continue == "c_phase2"

\* line 232: the return of the except clause around Phase 1
CliPhase1ExceptNext == "done"

\* lines 216-232: Phase 1
Cli_Phase1(o) ==
    /\ p_pc = "c_phase1"
    /\ IF env.api_key /\ o = "ok"
       THEN /\ phase1_brainstorm' = "text"
            /\ p_pc' = "c_phase2"
            /\ exec_log' = Invoked("generate_and_save", "text")
            /\ UNCHANGED <<cli_report, raised_log>>
       ELSE /\ cli_report' = "phase1_failed"
            /\ p_pc' = CliPhase1ExceptNext
            /\ exec_log' = IF env.api_key THEN Invoked("generate_and_save", "text") ELSE exec_log
            /\ raised_log' = Append(raised_log,
                                IF env.api_key THEN "generate_and_save" ELSE "Phase1Brainstorm")
            /\ UNCHANGED phase1_brainstorm
    /\ UNCHANGED <<orch, env, phase2_results, p3_local, phase3_results, phase4_results, status>>
    /\ WriteArtifacts
    /\ UNCHANGED <<status_log, response>>
    /\ UNCHANGED <<rl_vars, g_vars, t_vars, f_vars, e_vars, u_vars>>

\* lines 243-270: Phase 2; every exception is caught and the run continues
Cli_Phase2(kg, store, summary) ==
    /\ p_pc = "c_phase2"
    /\ IF env.api_key /\ env.neo4j_up
       THEN /\ phase2_results' = run_phase2(kg, store, summary)
            /\ exec_log' = Invoked("run_phase2", phase1_brainstorm) \o run_phase2_calls(kg)
            /\ raised_log' = raised_log \o run_phase2_raises(kg, store, summary)
       ELSE /\ raised_log' = Append(raised_log, "Phase2ContextBuilder")
            /\ UNCHANGED <<phase2_results, exec_log>>
    /\ p_pc' = "c_phase3"
    /\ UNCHANGED <<orch, env, phase1_brainstorm, p3_local, phase3_results, phase4_results,
                   status, cli_report>>
    /\ WriteArtifacts
    /\ UNCHANGED <<status_log, response>>
    /\ UNCHANGED <<rl_vars, g_vars, t_vars, f_vars, e_vars, u_vars>>

\* line 283: phase2_results and phase2_results.get('summary')
CliPhase3Guard == phase2_results.present /\ phase2_results.summary # "null"

\* lines 282-306: enter run_phase3, or skip Phase 3
Cli_Phase3 ==
    /\ p_pc = "c_phase3"
    /\ IF CliPhase3Guard
       THEN IF env.api_key
            THEN /\ p3_local' = [NoDict3 EXCEPT !.present = TRUE]
                 /\ exec_log' = Invoked("run_phase3", phase2_results.summary)
                 /\ p_pc' = "r3_lens_a"
                 /\ UNCHANGED raised_log
            ELSE /\ raised_log' = Append(raised_log, "Phase3Distiller")
                 /\ p_pc' = "c_phase4"
                 /\ UNCHANGED <<p3_local, exec_log>>
       ELSE /\ p_pc' = "c_phase4"
            /\ UNCHANGED <<p3_local, exec_log, raised_log>>
    /\ UNCHANGED <<orch, env, phase1_brainstorm, phase2_results, phase3_results,
                   phase4_results, status, cli_report>>
    /\ WriteArtifacts
    /\ UNCHANGED <<status_log, response>>
    /\ UNCHANGED <<rl_vars, g_vars, t_vars, f_vars, e_vars, u_vars>>

\* Phase3Distiller.run_phase3, lines 491-517: one lens, its failure tolerated
R3_Lens(l, next, o) ==
    /\ p_pc = "r3_" \o l
    /\ exec_log' = Invoked(l, phase2_results.summary)
    /\ IF o = "ok"
       THEN /\ p3_local' = LensField(p3_local, l, "text")
            /\ UNCHANGED raised_log
       ELSE /\ raised_log' = Append(raised_log, l)
            /\ UNCHANGED p3_local
    /\ p_pc' = AfterLens(next, o)
    /\ UNCHANGED <<orch, env, phase1_brainstorm, phase2_results, phase3_results,
                   phase4_results, status, cli_report>>
    /\ WriteArtifacts
    /\ UNCHANGED <<status_log, response>>
    /\ UNCHANGED <<rl_vars, g_vars, t_vars, f_vars, e_vars, u_vars>>

\* Phase3Distiller.run_phase3, lines 519-533: synthesis, and the return to main()
R3_Synthesis(o) ==
    /\ p_pc = "r3_synthesis"
    /\ LET res == IF AllLensesCompleted(p3_local) /\ o = "ok"
                  THEN [p3_local EXCEPT !.synthesis = "text"]
                  ELSE p3_local
       IN  /\ p3_local' = res
           /\ phase3_results' = res
    /\ exec_log' = IF AllLensesCompleted(p3_local)
                   THEN Invoked("generate_synthesis", "text") ELSE exec_log
    /\ raised_log' = IF AllLensesCompleted(p3_local) /\ o # "ok"
                     THEN Append(raised_log, "generate_synthesis") ELSE raised_log
    /\ p_pc' = "c_phase4"
    /\ UNCHANGED <<orch, env, phase1_brainstorm, phase2_results, phase4_results, status,
                   cli_report>>
    /\ WriteArtifacts
    /\ UNCHANGED <<status_log, response>>
    /\ UNCHANGED <<rl_vars, g_vars, t_vars, f_vars, e_vars, u_vars>>

CliPhase4Guard_Always == TRUE

\* line 319: phase3_results and phase3_results.get('synthesis')
CliPhase4Guard == phase3_results.present /\ phase3_results.synthesis # "null"

\* lines 318-345: Phase 4, or its skip
Cli_Phase4(q, r, s) ==
    /\ p_pc = "c_phase4"
    /\ IF CliPhase4Guard
       THEN IF env.api_key
            THEN /\ phase4_results' = run_phase4(q, r, s)
                 /\ exec_log' = exec_log \o run_phase4_calls(q, r)
                 /\ raised_log' = raised_log \o run_phase4_raises(q, r, s)
            ELSE /\ raised_log' = Append(raised_log, "Phase4Formulator")
                 /\ UNCHANGED <<phase4_results, exec_log>>
       ELSE UNCHANGED <<phase4_results, exec_log, raised_log>>
    /\ p_pc' = "c_summary"
    /\ UNCHANGED <<orch, env, phase1_brainstorm, phase2_results, p3_local, phase3_results,
                   status, cli_report>>
    /\ WriteArtifacts
    /\ UNCHANGED <<status_log, response>>
    /\ UNCHANGED <<rl_vars, g_vars, t_vars, f_vars, e_vars, u_vars>>

\* lines 392-432: the closing summary, printed whatever the phases produced
Cli_Summary ==
    /\ p_pc = "c_summary"
    /\ cli_report' = "completed"
    /\ p_pc' = "done"
    /\ UNCHANGED <<orch, env, phase1_brainstorm, phase2_results, p3_local, phase3_results,
                   phase4_results, status, exec_log, raised_log>>
    /\ WriteArtifacts
    /\ UNCHANGED <<status_log, response>>
    /\ UNCHANGED <<rl_vars, g_vars, t_vars, f_vars, e_vars, u_vars>>

-----------------------------------------------------------------------------
(* run_chronos_pipeline() *)

\* processing_status[unique_id].update({...})
StatusUpdate(st, phase, progress) == [st EXCEPT !.phase = phase, !.progress = progress]

\* processing_status[unique_id].update({'phase_display': ..., 'progress': ...})
ProgressUpdate(st, progress) == [st EXCEPT !.progress = progress]

\* A variant of the except clause that leaves the status 'processing'
ErrorStatus_StillProcessing(name) ==
    [status |-> "processing", phase |-> "absent", progress |-> -1, error |-> name,
     hypotheses |-> "absent"]

\* lines 472-476: the record the except clause assigns
ErrorStatus(name) ==
    [status |-> "error", phase |-> "absent", progress |-> -1, error |-> name,
     hypotheses |-> "absent"]

\* lines 445-458: the record of a finished run
CompleteStatus ==
    [status |-> "complete", phase |-> "complete", progress |-> 100, error |-> "absent",
     hypotheses |-> "list"]

\* The records a step writes, in order: the last one is the record afterwards
Written(records) ==
    /\ status_log' = status_log \o records
    /\ status' = IF records = <<>> THEN status ELSE records[Len(records)]

\* lines 466-477: the except clause of run_chronos_pipeline, after the records
\* the try block wrote before the exception
WebFail(name, before) ==
    /\ Written(before \o <<ErrorStatus(name)>>)
    /\ raised_log' = Append(raised_log, name)
    /\ p_pc' = "done"

\* lines 209-247: initialising, the result directories, the OCR status
Web_Init(o) ==
    /\ p_pc = "w_init"
    /\ LET s1 == StatusUpdate(status, "initializing", 5)
       IN  IF o = "ok"
           THEN /\ Written(<<s1, StatusUpdate(s1, "ocr", 15)>>)
                /\ p_pc' = "w_ocr"
                /\ UNCHANGED raised_log
           ELSE WebFail("makedirs", <<s1>>)
    /\ UNCHANGED <<orch, env, phase1_brainstorm, phase2_results, p3_local, phase3_results,
                   phase4_results, cli_report, exec_log, response>>
    /\ WriteArtifacts
    /\ UNCHANGED <<rl_vars, g_vars, t_vars, f_vars, e_vars, u_vars>>

\* lines 249-269: OCR, the extracted text, the Phase 1 status
Web_OCR(o) ==
    /\ p_pc = "w_ocr"
    /\ exec_log' = Invoked("process_file", "file")
    /\ IF o = "ok"
       THEN /\ LET s1 == ProgressUpdate(status, 25)
               IN  Written(<<s1, StatusUpdate(s1, "phase1", 30)>>)
            /\ p_pc' = "w_phase1"
            /\ UNCHANGED raised_log
       ELSE WebFail("process_file", <<>>)
    /\ UNCHANGED <<orch, env, phase1_brainstorm, phase2_results, p3_local, phase3_results,
                   phase4_results, cli_report, response>>
    /\ WriteArtifacts
    /\ UNCHANGED <<rl_vars, g_vars, t_vars, f_vars, e_vars, u_vars>>

\* lines 271-290: Phase 1, then the Phase 2 status
Web_Phase1(o) ==
    /\ p_pc = "w_phase1"
    /\ IF env.api_key /\ o = "ok"
       THEN /\ phase1_brainstorm' = "text"
            /\ exec_log' = Invoked("generate_and_save", "text")
            /\ LET s1 == ProgressUpdate(status, 45)
               IN  Written(<<s1, StatusUpdate(s1, "phase2", 50)>>)
            /\ p_pc' = "w_phase2"
            /\ UNCHANGED raised_log
       ELSE /\ exec_log' = IF env.api_key THEN Invoked("generate_and_save", "text") ELSE exec_log
            /\ WebFail(IF env.api_key THEN "generate_and_save" ELSE "Phase1Brainstorm", <<>>)
            /\ UNCHANGED phase1_brainstorm
    /\ UNCHANGED <<orch, env, phase2_results, p3_local, phase3_results, phase4_results,
                   cli_report, response>>
    /\ WriteArtifacts
    /\ UNCHANGED <<rl_vars, g_vars, t_vars, f_vars, e_vars, u_vars>>

\* lines 292-329: Phase 2, the Phase 3 status, the empty phase3_results
Web_Phase2(kg, store, summary) ==
    /\ p_pc = "w_phase2"
    /\ IF env.neo4j_up
       THEN /\ phase2_results' = run_phase2(kg, store, summary)
            /\ exec_log' = Invoked("run_phase2", phase1_brainstorm) \o run_phase2_calls(kg)
            /\ raised_log' = raised_log \o run_phase2_raises(kg, store, summary)
            /\ LET s1 == ProgressUpdate(status, 65)
               IN  Written(<<s1, StatusUpdate(s1, "phase3", 70)>>)
            /\ phase3_results' = [NoDict3 EXCEPT !.present = TRUE]
            /\ p_pc' = "w_lens_a"
       ELSE /\ WebFail("Phase2ContextBuilder", <<>>)
            /\ UNCHANGED <<phase2_results, exec_log, phase3_results>>
    /\ UNCHANGED <<orch, env, phase1_brainstorm, p3_local, phase4_results, cli_report,
                   response>>
    /\ WriteArtifacts
    /\ UNCHANGED <<rl_vars, g_vars, t_vars, f_vars, e_vars, u_vars>>

\* lines 331-374: one lens, its failure tolerated, then the next status
Web_Lens(l, next, progress, o) ==
    /\ p_pc = "w_" \o l
    /\ exec_log' = Invoked(l, phase2_results.summary)
    /\ IF o = "ok"
       THEN /\ phase3_results' = LensField(phase3_results, l, "text")
            /\ UNCHANGED raised_log
       ELSE /\ raised_log' = Append(raised_log, l)
            /\ UNCHANGED phase3_results
    /\ Written(<<ProgressUpdate(status, progress)>>)
    /\ p_pc' = AfterLens(next, o)
    /\ UNCHANGED <<orch, env, phase1_brainstorm, phase2_results, p3_local, phase4_results,
                   cli_report, response>>
    /\ WriteArtifacts
    /\ UNCHANGED <<rl_vars, g_vars, t_vars, f_vars, e_vars, u_vars>>

\* line 407: not phase3_results.get('synthesis') or not ...['synthesis'].get('synthesis')
WebSynthesisMissing(r) == r.synthesis = "null"

\* lines 376-408: synthesis, the Phase 4 status, the check of the synthesis
Web_Synthesis(o) ==
    /\ p_pc = "w_synthesis"
    /\ LET res == IF AllLensesCompleted(phase3_results) /\ o = "ok"
                  THEN [phase3_results EXCEPT !.synthesis = "text"]
                  ELSE phase3_results
           log == IF AllLensesCompleted(phase3_results) /\ o # "ok"
                  THEN Append(raised_log, "generate_synthesis") ELSE raised_log
           s1  == ProgressUpdate(status, 80)
           s2  == StatusUpdate(s1, "phase4", 85)
       IN  /\ phase3_results' = res
           /\ IF WebSynthesisMissing(res)
              THEN /\ Written(<<s1, s2, ErrorStatus("Phase 3 synthesis failed")>>)
                   /\ raised_log' = Append(log, "run_chronos_pipeline")
                   /\ p_pc' = "done"
              ELSE /\ Written(<<s1, s2>>)
                   /\ raised_log' = log
                   /\ p_pc' = "w_phase4"
    /\ exec_log' = IF AllLensesCompleted(phase3_results)
                   THEN Invoked("generate_synthesis", "text") ELSE exec_log
    /\ UNCHANGED <<orch, env, phase1_brainstorm, phase2_results, p3_local, phase4_results,
                   cli_report, response>>
    /\ WriteArtifacts
    /\ UNCHANGED <<rl_vars, g_vars, t_vars, f_vars, e_vars, u_vars>>

\* lines 410-458: Phase 4, parsing its questions file, the final record
Web_Phase4(q, r, s) ==
    /\ p_pc = "w_phase4"
    /\ phase4_results' = run_phase4(q, r, s)
    /\ exec_log' = exec_log \o run_phase4_calls(q, r)
    /\ LET s1 == ProgressUpdate(status, 92)
       IN  IF q = "ok"
           THEN /\ Written(<<s1, ProgressUpdate(s1, 96), CompleteStatus>>)
                /\ raised_log' = raised_log \o run_phase4_raises(q, r, s)
                /\ p_pc' = "w_history"
           ELSE \* phase4_results['questions'] is None: the subscript raises
                /\ Written(<<s1, ErrorStatus("questions")>>)
                /\ raised_log' = raised_log \o run_phase4_raises(q, r, s)
                                    \o <<"run_chronos_pipeline">>
                /\ p_pc' = "done"
    /\ UNCHANGED <<orch, env, phase1_brainstorm, phase2_results, p3_local, phase3_results,
                   cli_report, response>>
    /\ WriteArtifacts
    /\ UNCHANGED <<rl_vars, g_vars, t_vars, f_vars, e_vars, u_vars>>

\* lines 460-464: the history file; a failure reaches the except clause
Web_History(o) ==
    /\ p_pc = "w_history"
    /\ IF o = "ok"
       THEN /\ p_pc' = "done"
            /\ UNCHANGED <<status, status_log, raised_log>>
       ELSE WebFail("save_analysis_to_history", <<>>)
    /\ UNCHANGED <<orch, env, phase1_brainstorm, phase2_results, p3_local, phase3_results,
                   phase4_results, cli_report, exec_log, response>>
    /\ WriteArtifacts
    /\ UNCHANGED <<rl_vars, g_vars, t_vars, f_vars, e_vars, u_vars>>

\* A variant of get_results without the test of the status
get_results_AnyStatus(st) ==
    IF st.status = "absent" THEN [code |-> 404, body |-> NoStatus]
    ELSE [code |-> 200, body |-> st]

\* get_results: 404 for an unknown id, 400 unless the status is 'complete',
\* else the record
get_results(st) ==
    IF st.status = "absent" THEN [code |-> 404, body |-> NoStatus]
    ELSE IF st.status # "complete" THEN [code |-> 400, body |-> NoStatus]
    ELSE [code |-> 200, body |-> st]

\* GET /results/<unique_id>, at any moment after the upload
Get_Results ==
    /\ orch = "web"
    /\ response' = get_results(status)
    /\ UNCHANGED <<orch, env, p_pc, phase1_brainstorm, phase2_results, p3_local,
                   phase3_results, phase4_results, status, cli_report, exec_log, raised_log,
                   storage, status_log>>
    /\ UNCHANGED <<rl_vars, g_vars, t_vars, f_vars, e_vars, u_vars>>

\* The steps of the thread that runs main() or run_chronos_pipeline
PipelineStep ==
    \/ \E o \in Outcomes : Cli_OCR(o)
    \/ \E o \in Outcomes : Cli_Phase1(o)
    \/ \E kg \in Outcomes, st \in Outcomes, sm \in Outcomes : Cli_Phase2(kg, st, sm)
    \/ Cli_Phase3
    \/ \E o \in Outcomes : R3_Lens("lens_a", "r3_lens_b", o)
    \/ \E o \in Outcomes : R3_Lens("lens_b", "r3_lens_c", o)
    \/ \E o \in Outcomes : R3_Lens("lens_c", "r3_synthesis", o)
    \/ \E o \in Outcomes : R3_Synthesis(o)
    \/ \E q \in Outcomes, r \in Outcomes, s \in Outcomes : Cli_Phase4(q, r, s)
    \/ Cli_Summary
    \/ \E o \in Outcomes : Web_Init(o)
    \/ \E o \in Outcomes : Web_OCR(o)
    \/ \E o \in Outcomes : Web_Phase1(o)
    \/ \E kg \in Outcomes, st \in Outcomes, sm \in Outcomes : Web_Phase2(kg, st, sm)
    \/ \E o \in Outcomes : Web_Lens("lens_a", "w_lens_b", 73, o)
    \/ \E o \in Outcomes : Web_Lens("lens_b", "w_lens_c", 76, o)
    \/ \E o \in Outcomes : Web_Lens("lens_c", "w_synthesis", 79, o)
    \/ \E o \in Outcomes : Web_Synthesis(o)
    \/ \E q \in Outcomes, r \in Outcomes, s \in Outcomes : Web_Phase4(q, r, s)
    \/ \E o \in Outcomes : Web_History(o)

PNext ==
    \/ PipelineStep
    \/ Get_Results

InitPipe == PInit /\ RLIdle /\ GIdle /\ TIdle /\ FIdle /\ EIdle /\ UIdle

SpecPipe == InitPipe /\ [][PNext]_vars

\* The pipeline thread is scheduled and every stage call returns or raises: a
\* step of the pipeline that stays possible is eventually taken.  Requests to
\* /results come whenever a client sends them, with no fairness.
SpecPipeFair == InitPipe /\ [][PNext]_vars /\ WF_vars(PipelineStep)

-----------------------------------------------------------------------------
(* Phase2ContextBuilder._parse_graph_elements.                              *)
(* The LLM output is a sequence of lexemes: the punctuation the two regular *)
(* expressions are made of, words (ids, types), and the newline.  In every  *)
(* text of the model a lexeme that ends with a quote is followed by a word, *)
(* so matching lexeme by lexeme is matching character by character.         *)

LxNode == "Node(id='"
LxRel == "Relationship(subj="
LxQuote == "'"
LxType == ", type='"
LxClose == ")"
LxObj == ", obj="
LxTs == ", timestamp='"
LxNewline == "\n"

\* The declarations a text is made of
NodeDecl(id, type) == [k |-> "node", a |-> id, b |-> type, c |-> "", d |-> "", e |-> "", f |-> ""]
RelDecl(sid, stype, oid, otype, rtype, ts) ==
    [k |-> "rel", a |-> sid, b |-> stype, c |-> oid, d |-> otype, e |-> rtype, f |-> ts]
Newline == [k |-> "nl", a |-> "", b |-> "", c |-> "", d |-> "", e |-> "", f |-> ""]
\* A node declaration cut off after its id: Node(id='q', type='
CutNodeDecl(id) == [k |-> "cut", a |-> id, b |-> "", c |-> "", d |-> "", e |-> "", f |-> ""]

NodeLexemes(id, type) == <<LxNode, id, LxQuote, LxType, type, LxQuote, LxClose>>

Lexemes(decl) ==
    CASE decl.k = "node" -> NodeLexemes(decl.a, decl.b)
      [] decl.k = "rel" ->
            <<LxRel>> \o NodeLexemes(decl.a, decl.b) \o <<LxObj>> \o NodeLexemes(decl.c, decl.d)
            \o <<LxType, decl.e, LxQuote>>
            \o (IF decl.f = "" THEN <<>> ELSE <<LxTs, decl.f, LxQuote>>)
            \o <<LxClose>>
      [] decl.k = "nl" -> <<LxNewline>>
      [] decl.k = "cut" -> <<LxNode, decl.a, LxQuote, LxType, "T">>

RECURSIVE Flatten(_)
Flatten(decls) == IF decls = <<>> THEN <<>> ELSE Lexemes(Head(decls)) \o Flatten(Tail(decls))

\* ---- the regular expressions, as sequences of literals and lazy groups (.*?)
Lit(v) == [t |-> "lit", v |-> v]
Grp == [t |-> "grp", v |-> ""]
\* (?:, timestamp='(.*?)')?
OptTimestamp == [t |-> "opt", v |-> ""]

node_pattern == <<Lit(LxNode), Grp, Lit(LxQuote), Lit(LxType), Grp, Lit(LxQuote), Lit(LxClose)>>

timestamp_pattern == <<Lit(LxTs), Grp, Lit(LxQuote)>>

rel_pattern_TimestampRequired ==
    <<Lit(LxRel), Lit(LxNode), Grp, Lit(LxQuote), Lit(LxType), Grp, Lit(LxQuote), Lit(LxClose),
      Lit(LxObj), Lit(LxNode), Grp, Lit(LxQuote), Lit(LxType), Grp, Lit(LxQuote), Lit(LxClose),
      Lit(LxType), Grp, Lit(LxQuote), Lit(LxTs), Grp, Lit(LxQuote), Lit(LxClose)>>

rel_pattern ==
    <<Lit(LxRel), Lit(LxNode), Grp, Lit(LxQuote), Lit(LxType), Grp, Lit(LxQuote), Lit(LxClose),
      Lit(LxObj), Lit(LxNode), Grp, Lit(LxQuote), Lit(LxType), Grp, Lit(LxQuote), Lit(LxClose),
      Lit(LxType), Grp, Lit(LxQuote), OptTimestamp, Lit(LxClose)>>

NoMatch == [ok |-> FALSE, end |-> 0, caps |-> <<>>]
\* The value of a group that took no part in the match (Python's None)
NoCapture == <<"<None>">>

\* A backtracking match of pat at position pos: literals must be next, a lazy
\* group takes the fewest lexemes (never a newline) that let the rest match, the
\* optional timestamp is taken when the rest matches with it.
RECURSIVE MatchFrom(_, _, _, _)
RECURSIVE LazyGroup(_, _, _, _, _)
MatchFrom(pat, text, pos, caps) ==
    IF pat = <<>> THEN [ok |-> TRUE, end |-> pos, caps |-> caps]
    ELSE LET h == Head(pat)
             rest == Tail(pat)
         IN  CASE h.t = "lit" ->
                    IF pos <= Len(text) /\ text[pos] = h.v
                    THEN MatchFrom(rest, text, pos + 1, caps)
                    ELSE NoMatch
               [] h.t = "grp" -> LazyGroup(rest, text, pos, 0, caps)
               [] h.t = "opt" ->
                    LET with == MatchFrom(timestamp_pattern \o rest, text, pos, caps)
                    IN  IF with.ok THEN with
                        ELSE MatchFrom(rest, text, pos, Append(caps, NoCapture))

LazyGroup(rest, text, pos, n, caps) ==
    LET r == MatchFrom(rest, text, pos + n, Append(caps, SubSeq(text, pos, pos + n - 1)))
    IN  IF r.ok THEN r
        ELSE IF pos + n <= Len(text) /\ text[pos + n] # LxNewline
             THEN LazyGroup(rest, text, pos, n + 1, caps)
             ELSE NoMatch

\* re.finditer(pat, text): the groups of the non-overlapping matches, left to right
RECURSIVE FindIter(_, _, _)
FindIter(pat, text, pos) ==
    IF pos > Len(text) THEN <<>>
    ELSE LET m == MatchFrom(pat, text, pos, <<>>)
         IN  IF m.ok
             THEN <<m.caps>> \o FindIter(pat, text, IF m.end > pos THEN m.end ELSE pos + 1)
             ELSE FindIter(pat, text, pos + 1)

\* ---- lines 314-356
HasId(nodes, id) == \E i \in 1..Len(nodes) : nodes[i].id = id

\* nodes[node_id]
NodeOf(nodes, id) ==
    LET idx == {i \in 1..Len(nodes) : nodes[i].id = id}
    IN  IF idx = {} THEN [id |-> id, type |-> <<>>, source |-> "KeyError"]
        ELSE nodes[CHOOSE i \in idx : \A j \in idx : i <= j]

NodeInsert_LastWins(nodes, id, type) ==
    IF HasId(nodes, id)
    THEN [i \in 1..Len(nodes) |->
            IF nodes[i].id = id THEN [nodes[i] EXCEPT !.type = type] ELSE nodes[i]]
    ELSE Append(nodes, [id |-> id, type |-> type, source |-> "phase2_chronos"])

InitialNodes_Kept == graph_element.nodes

\* line 314: nodes = {}, a local of the call
InitialNodes == <<>>

\* lines 320-324: if node_id not in nodes: nodes[node_id] = Node(...)
NodeInsert(nodes, id, type) ==
    IF HasId(nodes, id) THEN nodes
    ELSE Append(nodes, [id |-> id, type |-> type, source |-> "phase2_chronos"])

\* lines 318-324: the loop over the node matches
RECURSIVE ExtractNodes(_, _)
ExtractNodes(matches, nodes) ==
    IF matches = <<>> THEN nodes
    ELSE ExtractNodes(Tail(matches), NodeInsert(nodes, Head(matches)[1], Head(matches)[2]))

RelAccept_ObjectOnly(nodes, subj_id, obj_id) == HasId(nodes, obj_id)

\* line 337: subj_id in nodes and obj_id in nodes
RelAccept(nodes, subj_id, obj_id) == HasId(nodes, subj_id) /\ HasId(nodes, obj_id)

\* lines 327-347: the loop over the relationship matches
RECURSIVE ExtractRelationships(_, _, _)
ExtractRelationships(matches, nodes, rels) ==
    IF matches = <<>> THEN rels
    ELSE LET g == Head(matches)
             subj_id == g[1]
             obj_id == g[3]
             rel_type == g[5]
             timestamp == g[6]
         IN  ExtractRelationships(Tail(matches), nodes,
                IF RelAccept(nodes, subj_id, obj_id)
                THEN Append(rels, [subj |-> NodeOf(nodes, subj_id),
                                   obj |-> NodeOf(nodes, obj_id),
                                   type |-> rel_type,
                                   timestamp |-> timestamp,
                                   source |-> "phase2_chronos"])
                ELSE rels)

\* A single pass over the text: a relationship sees the nodes declared before it
RECURSIVE OnePassRelationships(_, _)
OnePassRelationships(text, pos) ==
    IF pos > Len(text) THEN <<>>
    ELSE LET m == MatchFrom(rel_pattern, text, pos, <<>>)
         IN  IF m.ok
             THEN ExtractRelationships(<<m.caps>>,
                      ExtractNodes(FindIter(node_pattern, SubSeq(text, 1, pos - 1), 1),
                                   InitialNodes), <<>>)
                  \o OnePassRelationships(text, m.end)
             ELSE OnePassRelationships(text, pos + 1)

parse_graph_elements_OnePass(text) ==
    [nodes |-> ExtractNodes(FindIter(node_pattern, text, 1), InitialNodes),
     relationships |-> OnePassRelationships(text, 1)]

\* The GraphElement _parse_graph_elements returns (nodes in insertion order)
parse_graph_elements(text) ==
    LET nodes == ExtractNodes(FindIter(node_pattern, text, 1), InitialNodes)
    IN  [nodes |-> nodes,
         relationships |-> ExtractRelationships(FindIter(rel_pattern, text, 1), nodes, <<>>)]

\* The texts: up to MaxDecls declarations, written one after another
MaxDecls == 3

Decls ==
    { NodeDecl("a", "X"), NodeDecl("a", "Y"), NodeDecl("b", "X"),
      RelDecl("a", "X", "b", "X", "r", ""),
      RelDecl("a", "X", "z", "Y", "r", ""),
      RelDecl("b", "Y", "a", "X", "s", "t1"),
      Newline, CutNodeDecl("q") }

DeclSeqs == UNION { [1..n -> Decls] : n \in 0..MaxDecls }

GInit ==
    /\ g_decls \in DeclSeqs
    /\ llm_output = Flatten(g_decls)
    /\ g_pc = "ready"
    /\ graph_element = NoGraph
    /\ first_element = NoGraph

\* graph_element = self._parse_graph_elements(response_text, text)
ParseGraphElements ==
    /\ g_pc = "ready"
    /\ graph_element' = parse_graph_elements(llm_output)
    /\ first_element' = graph_element'
    /\ g_pc' = "parsed"
    /\ UNCHANGED <<g_decls, llm_output, rl_vars, p_vars, t_vars, f_vars, e_vars, u_vars>>

\* The texts of a call made on the same builder between two calls on llm_output
OtherTexts ==
    { Flatten(<<NodeDecl("c", "Y")>>),
      Flatten(<<NodeDecl("a", "Y"), RelDecl("a", "Y", "c", "X", "s", "")>>) }

\* A call of _parse_graph_elements on another text
ParseOther(text) ==
    /\ g_pc = "parsed"
    /\ graph_element' = parse_graph_elements(text)
    /\ g_pc' = "other"
    /\ UNCHANGED <<g_decls, llm_output, first_element, rl_vars, p_vars, t_vars, f_vars, e_vars, u_vars>>

\* The second call of _parse_graph_elements on llm_output
ParseAgain ==
    /\ g_pc \in {"parsed", "other"}
    /\ graph_element' = parse_graph_elements(llm_output)
    /\ g_pc' = IF g_pc = "other" THEN "reparsed_after_other" ELSE "reparsed"
    /\ UNCHANGED <<g_decls, llm_output, first_element, rl_vars, p_vars, t_vars, f_vars, e_vars, u_vars>>

GNext ==
    \/ ParseGraphElements
    \/ \E text \in OtherTexts : ParseOther(text)
    \/ ParseAgain

InitGraph == GInit /\ RLIdle /\ PIdle /\ TIdle /\ FIdle /\ EIdle /\ UIdle

SpecGraph == InitGraph /\ [][GNext]_vars

-----------------------------------------------------------------------------
(* Threads sharing one GeminiRateLimiter.  Each thread runs generate_content *)
(* once; the statements of one thread interleave with those of the others,  *)
(* since the class takes no lock.  The clock advances on its own; a sleeping *)
(* thread continues at or after the end of its sleep.                        *)

\* How long the clock of the model runs, in ticks
MaxClock == 5

\* The shared instance: base_delay 0.2 s, backoff capped at 0.1 s, one retry
SharedConfig == [initial_delay |-> 1, max_delay |-> 1, base_delay |-> 2, max_retries |-> 1]

\* What a model call of a thread can do
ThreadOutcomes ==
    {[kind |-> "text", text |-> <<>>],
     [kind |-> "raises", text |-> <<Word("429")>>],
     [kind |-> "raises", text |-> <<Word("503 unavailable")>>]}

SharedInit ==
    /\ cfg = SharedConfig
    /\ request_count = 0
    /\ last_request_time = 0
    /\ now = StartTime
    /\ rl_pc = "idle"
    /\ ma_arg = None
    /\ max_attempts = 0
    /\ attempt = 0
    /\ caught = [id |-> 0, text |-> <<>>]
    /\ gc_result = [kind |-> "none", exc |-> [id |-> 0, text |-> <<>>]]
    /\ attempt_log = <<>>
    /\ sleep_log = <<>>
    /\ invocations = 0
    /\ pace_log = <<>>
    /\ at_entry = [request_count |-> 0, last_request_time |-> 0]

\* The fields of the frames and of the instance that no thread step writes
SharedFrame ==
    UNCHANGED <<cfg, rl_pc, ma_arg, max_attempts, attempt, caught, gc_result, attempt_log,
                sleep_log, invocations, pace_log, at_entry, p_vars, g_vars, f_vars, e_vars, u_vars>>

\* time.time() moves on
Tick ==
    /\ now < StartTime + MaxClock
    /\ now' = now + 1
    /\ UNCHANGED <<request_count, last_request_time, t_vars, f_vars, e_vars, u_vars>>
    /\ SharedFrame

\* lines 166-176: entry; attempt 0 is not paced
T_Call(t) ==
    /\ t_pc[t] = "idle"
    /\ t_attempt' = [t_attempt EXCEPT ![t] = 0]
    /\ t_pc' = [t_pc EXCEPT ![t] = "call"]
    /\ UNCHANGED <<now, request_count, last_request_time, t_wake, t_cnt, acquire_log, call_log>>
    /\ SharedFrame

\* lines 136-142: read the clock and last_request_time, decide to wait
T_EnforceRead(t) ==
    /\ t_pc[t] = "enforce"
    /\ IF PaceWait > 0
       THEN /\ t_wake' = [t_wake EXCEPT ![t] = now + PaceWait]
            /\ t_pc' = [t_pc EXCEPT ![t] = "pace_sleep"]
       ELSE /\ t_wake' = t_wake
            /\ t_pc' = [t_pc EXCEPT ![t] = "record"]
    /\ UNCHANGED <<now, request_count, last_request_time, t_attempt, t_cnt, acquire_log,
                   call_log>>
    /\ SharedFrame

\* line 142: time.sleep(wait_time) returns
T_PaceWake(t) ==
    /\ t_pc[t] = "pace_sleep"
    /\ now >= t_wake[t]
    /\ t_pc' = [t_pc EXCEPT ![t] = "record"]
    /\ t_wake' = [t_wake EXCEPT ![t] = 0]
    /\ UNCHANGED <<now, request_count, last_request_time, t_attempt, t_cnt, acquire_log,
                   call_log>>
    /\ SharedFrame

\* line 144: self.last_request_time = time.time()
T_Record(t) ==
    /\ t_pc[t] = "record"
    /\ last_request_time' = now
    /\ acquire_log' = Append(acquire_log, now)
    /\ t_pc' = [t_pc EXCEPT ![t] = "count_load"]
    /\ UNCHANGED <<now, request_count, t_attempt, t_wake, t_cnt, call_log>>
    /\ SharedFrame

\* line 145: self.request_count += 1, the read
T_CountLoad(t) ==
    /\ t_pc[t] = "count_load"
    /\ t_cnt' = [t_cnt EXCEPT ![t] = request_count]
    /\ t_pc' = [t_pc EXCEPT ![t] = "count_store"]
    /\ UNCHANGED <<now, request_count, last_request_time, t_attempt, t_wake, acquire_log,
                   call_log>>
    /\ SharedFrame

\* line 145: self.request_count += 1, the write
T_CountStore(t) ==
    /\ t_pc[t] = "count_store"
    /\ request_count' = t_cnt[t] + 1
    /\ t_cnt' = [t_cnt EXCEPT ![t] = 0]
    /\ t_pc' = [t_pc EXCEPT ![t] = "call"]
    /\ UNCHANGED <<now, last_request_time, t_attempt, t_wake, acquire_log, call_log>>
    /\ SharedFrame

\* line 189: model.generate_content(...) is entered
T_CallStart(t) ==
    /\ t_pc[t] = "call"
    /\ call_log' = Append(call_log, [thread |-> t, at |-> now])
    /\ t_pc' = [t_pc EXCEPT ![t] = "in_call"]
    /\ UNCHANGED <<now, request_count, last_request_time, t_attempt, t_wake, t_cnt,
                   acquire_log>>
    /\ SharedFrame

\* lines 189-227: the call returns or raises; the except clause starts its sleep
T_CallEnd(t, o, jitter) ==
    /\ t_pc[t] = "in_call"
    /\ LET rate == is_rate_limit(o.text)
           last == t_attempt[t] = ResolveMaxAttempts(None)
           delay == IF rate THEN handle_rate_limit_error(o.text)
                    ELSE calculate_delay(t_attempt[t], jitter)
       IN  IF o.kind = "text"
           THEN /\ t_pc' = [t_pc EXCEPT ![t] = "returned"]
                /\ t_wake' = t_wake
           ELSE IF rate \/ ~last
                THEN /\ t_pc' = [t_pc EXCEPT ![t] = "backoff_sleep"]
                     /\ t_wake' = [t_wake EXCEPT ![t] = now + delay]
                ELSE /\ t_pc' = [t_pc EXCEPT ![t] = "raised"]
                     /\ t_wake' = t_wake
    /\ UNCHANGED <<now, request_count, last_request_time, t_attempt, t_cnt, acquire_log,
                   call_log>>
    /\ SharedFrame

\* lines 221-232: time.sleep(delay) returns; raise on the last attempt, else loop
T_BackoffWake(t) ==
    /\ t_pc[t] = "backoff_sleep"
    /\ now >= t_wake[t]
    /\ IF t_attempt[t] = ResolveMaxAttempts(None)
       THEN /\ t_pc' = [t_pc EXCEPT ![t] = "raised"]
            /\ t_attempt' = t_attempt
       ELSE /\ t_pc' = [t_pc EXCEPT ![t] = "enforce"]
            /\ t_attempt' = [t_attempt EXCEPT ![t] = t_attempt[t] + 1]
    /\ t_wake' = [t_wake EXCEPT ![t] = 0]
    /\ UNCHANGED <<now, request_count, last_request_time, t_cnt, acquire_log, call_log>>
    /\ SharedFrame

TNext ==
    \/ Tick
    \/ \E t \in Threads : T_Call(t)
    \/ \E t \in Threads : T_EnforceRead(t)
    \/ \E t \in Threads : T_PaceWake(t)
    \/ \E t \in Threads : T_Record(t)
    \/ \E t \in Threads : T_CountLoad(t)
    \/ \E t \in Threads : T_CountStore(t)
    \/ \E t \in Threads : T_CallStart(t)
    \/ \E t \in Threads, o \in ThreadOutcomes, j \in JitterSet : T_CallEnd(t, o, j)
    \/ \E t \in Threads : T_BackoffWake(t)

InitShared == SharedInit /\ TIdle /\ PIdle /\ GIdle /\ FIdle /\ EIdle /\ UIdle

SpecShared == InitShared /\ [][TNext]_vars

-----------------------------------------------------------------------------
(* get_rate_limiter and rate_limited_request.  The global _rate_limiter is  *)
(* the variable rate_limiter; delays are in ticks.                          *)

MaxRequests == 1

Keys == {"initial_delay", "max_delay", "base_delay", "max_retries", "total_timeout"}

\* lines 276-282
default_settings ==
    [initial_delay |-> 2 * TicksPerSecond, max_delay |-> 300 * TicksPerSecond,
     base_delay |-> 12 * TicksPerSecond, max_retries |-> 5,
     total_timeout |-> 1800 * TicksPerSecond]

\* default_settings.update(kwargs)
Update(settings, kwargs) ==
    [k \in DOMAIN settings \cup DOMAIN kwargs |->
        IF k \in DOMAIN kwargs THEN kwargs[k] ELSE settings[k]]

\* GeminiRateLimiter(**settings): __init__ stores the five settings and zeroes
\* request_count and last_request_time
\* A variant of the constructor that takes the counters of the limiter it replaces
GeminiRateLimiter_KeepCounts(settings) ==
    [present |-> TRUE, settings |-> settings,
     request_count |-> rate_limiter.request_count,
     last_request_time |-> rate_limiter.last_request_time]

GeminiRateLimiter(settings) ==
    [present |-> TRUE, settings |-> settings, request_count |-> 0, last_request_time |-> 0]

NeedsNew_OnlyWhenNone(kwargs) == ~rate_limiter.present

\* line 274: _rate_limiter is None or kwargs
NeedsNew(kwargs) == ~rate_limiter.present \/ DOMAIN kwargs # {}

\* get_rate_limiter(**kwargs): the value of the global after the call, which is
\* the value returned
get_rate_limiter(kwargs) ==
    IF NeedsNew(kwargs) THEN GeminiRateLimiter(Update(default_settings, kwargs))
    ELSE rate_limiter

\* The keyword arguments of the calls: any subset of the five settings
OverrideValues ==
    [initial_delay |-> {5}, max_delay |-> {100}, base_delay |-> {20, 150},
     max_retries |-> {0, 3}, total_timeout |-> {6000}]

KwargsSet ==
    UNION { {kw \in [K -> UNION {OverrideValues[k] : k \in Keys}] :
                \A k \in K : kw[k] \in OverrideValues[k]} : K \in SUBSET Keys }

\* A call of get_rate_limiter
GetRateLimiter(kwargs) ==
    /\ f_prev' = rate_limiter
    /\ f_kwargs' = kwargs
    /\ rate_limiter' = get_rate_limiter(kwargs)
    /\ f_returned' = get_rate_limiter(kwargs)
    /\ f_call' = [op |-> "get_rate_limiter", retries |-> 0]
    /\ UNCHANGED <<rl_vars, p_vars, g_vars, t_vars, e_vars, u_vars>>

\* The limiter after a generate_content that made r retries, the last one paced
\* at time t: _enforce_request_delay ran r times
AfterGenerateContent(l, r, t) ==
    IF r = 0 THEN l
    ELSE [l EXCEPT !.request_count = @ + r, !.last_request_time = t]

\* rate_limited_request(model, prompt, delay_between_requests): lines 309-310
RateLimitedRequest(delay, r) ==
    LET kwargs == [k \in {"base_delay"} |-> delay]
    IN  /\ f_prev' = rate_limiter
        /\ f_kwargs' = kwargs
        /\ f_returned' = get_rate_limiter(kwargs)
        /\ f_call' = [op |-> "rate_limited_request", retries |-> r]
        /\ rate_limiter' = AfterGenerateContent(get_rate_limiter(kwargs), r, StartTime + r)
        /\ UNCHANGED <<rl_vars, p_vars, g_vars, t_vars, e_vars, u_vars>>

\* generate_content called on the global limiter, with at least one retry
GenerateContentOnGlobal(r) ==
    /\ rate_limiter.present
    /\ rate_limiter.request_count + r <= MaxRequests
    /\ rate_limiter' = AfterGenerateContent(rate_limiter, r, StartTime + r)
    /\ f_call' = [op |-> "generate_content", retries |-> r]
    /\ UNCHANGED <<f_prev, f_kwargs, f_returned, rl_vars, p_vars, g_vars, t_vars, e_vars, u_vars>>

FNext ==
    \/ \E kwargs \in KwargsSet : GetRateLimiter(kwargs)
    \/ \E delay \in {12 * TicksPerSecond, 15 * TicksPerSecond}, r \in 0..MaxRequests :
          RateLimitedRequest(delay, r)
    \/ \E r \in 1..MaxRequests : GenerateContentOnGlobal(r)

InitFactory == FIdle /\ RLIdle /\ PIdle /\ GIdle /\ TIdle /\ EIdle /\ UIdle

SpecFactory == InitFactory /\ [][FNext]_vars

-----------------------------------------------------------------------------
(* _extract_retry_delay and _calculate_delay, each called once on arguments *)
(* drawn from bounded sets                                                  *)

MaxWords == 3
MaxAttemptIndex == 5

\* The words of the error messages: each phrase a pattern can match, with a
\* number of its own, and a word no pattern matches
ExtractWords ==
    { DelayPhrase("\"retryDelay\": \"Ns\"", 30), DelayPhrase("\"retryDelay\": N", 7),
      DelayPhrase("retryAfter: N", 5), DelayPhrase("retryafter: N", 6),
      DelayPhrase("Retry-After: N", 4), DelayPhrase("N seconds", 45),
      DelayPhrase("N second", 0), Word("quota exceeded") }

ExtractTexts == UNION { [1..n -> ExtractWords] : n \in 0..MaxWords }

DelayConfigs ==
    [ initial_delay : {10, 20},
      max_delay     : {100, 3000},
      base_delay    : {120},
      max_retries   : {5} ]

DInit ==
    /\ cfg \in DelayConfigs
    /\ request_count = 0
    /\ last_request_time = 0
    /\ now = StartTime
    /\ rl_pc = "idle"
    /\ ma_arg = None
    /\ max_attempts = 0
    /\ attempt = 0
    /\ caught = [id |-> 0, text |-> <<>>]
    /\ gc_result = [kind |-> "none", exc |-> [id |-> 0, text |-> <<>>]]
    /\ attempt_log = <<>>
    /\ sleep_log = <<>>
    /\ invocations = 0
    /\ pace_log = <<>>
    /\ at_entry = [request_count |-> 0, last_request_time |-> 0]
    /\ err_message \in ExtractTexts
    /\ arg_attempt \in 0..MaxAttemptIndex
    /\ fn_pc = "ready"
    /\ fn_result = NoResult

\* server_delay = self._extract_retry_delay(error_str)
ExtractRetryDelay ==
    /\ fn_pc = "ready"
    /\ fn_result' = [NoResult EXCEPT !.delay = extract_retry_delay(err_message)]
    /\ fn_pc' = "extracted"
    /\ UNCHANGED <<err_message, arg_attempt, rl_vars, p_vars, g_vars, t_vars, f_vars, u_vars>>

\* delay = self._calculate_delay(attempt)
CalculateDelay(jitter) ==
    /\ fn_pc = "ready"
    /\ fn_result' = [NoResult EXCEPT !.wait = calculate_delay(arg_attempt, jitter),
                                     !.jitter = jitter]
    /\ fn_pc' = "calculated"
    /\ UNCHANGED <<err_message, arg_attempt, rl_vars, p_vars, g_vars, t_vars, f_vars, u_vars>>

DNext ==
    \/ ExtractRetryDelay
    \/ \E j \in JitterSet : CalculateDelay(j)

InitDelay == DInit /\ PIdle /\ GIdle /\ TIdle /\ FIdle /\ UIdle

SpecDelay == InitDelay /\ [][DNext]_vars

-----------------------------------------------------------------------------
(* The web server: upload_file starts one pipeline thread per upload; the    *)
(* threads share the dict processing_status and the history file, without a *)
(* lock.  A pipeline here is its end (the final record or the error record) *)
(* and its save_analysis_to_history, statement by statement.                *)

HistoryCap == 10

Take(seq, n) == SubSeq(seq, 1, Min(n, Len(seq)))

\* line 826: re.sub(r'[^a-zA-Z0-9]', '_', os.path.splitext(filename)[0])[:30]
clean_filename(filename) ==
    CASE filename = "a-b.pdf" -> "a_b"
      [] filename = "a_b.pdf" -> "a_b"

\* line 827: f"{clean_filename}_{timestamp}"; the timestamp has a fixed width
MakeUniqueId(filename, second) == [name |-> clean_filename(filename), ts |-> second]

\* Entries of runs completed before the server started
OldEntry(k) == [name |-> "old", ts |-> k]
OldHistories ==
    { <<>>, [k \in 1..(HistoryCap - 1) |-> OldEntry(k)], [k \in 1..HistoryCap |-> OldEntry(k)] }

UInit ==
    /\ clock_second = 1
    /\ unique_id = [r \in Runs |-> NoId]
    /\ processing_status = [u \in UniqueIds |-> NoRecord]
    /\ u_pc = [r \in Runs |-> "none"]
    /\ h_history = [r \in Runs |-> <<>>]
    /\ \E old \in OldHistories :
          /\ history_file = [valid |-> TRUE, entries |-> old]
          /\ completed = old

\* datetime.now() moves on to the next second
U_Tick ==
    /\ clock_second < MaxSecond
    /\ clock_second' = clock_second + 1
    /\ UNCHANGED <<unique_id, processing_status, u_pc, h_history, history_file, completed>>
    /\ UNCHANGED <<rl_vars, p_vars, g_vars, t_vars, f_vars, e_vars>>

\* upload_file, lines 817-840: the id, the initial record, the thread
Upload(r, filename) ==
    /\ u_pc[r] = "none"
    /\ LET id == MakeUniqueId(filename, clock_second)
       IN  /\ unique_id' = [unique_id EXCEPT ![r] = id]
           /\ processing_status' =
                  [processing_status EXCEPT ![id] =
                      [status |-> "processing", progress |-> 5, filename |-> filename,
                       unique_id |-> NoId]]
    /\ u_pc' = [u_pc EXCEPT ![r] = "running"]
    /\ UNCHANGED <<clock_second, h_history, history_file, completed>>
    /\ UNCHANGED <<rl_vars, p_vars, g_vars, t_vars, f_vars, e_vars>>

\* lines 472-476: the error record
ErrorRecord == [status |-> "error", progress |-> -1, filename |-> "", unique_id |-> NoId]

\* run_chronos_pipeline of upload r raises: lines 466-477
U_Fail(r) ==
    /\ u_pc[r] = "running"
    /\ processing_status' = [processing_status EXCEPT ![unique_id[r]] = ErrorRecord]
    /\ u_pc' = [u_pc EXCEPT ![r] = "done"]
    /\ UNCHANGED <<clock_second, unique_id, h_history, history_file, completed>>
    /\ UNCHANGED <<rl_vars, p_vars, g_vars, t_vars, f_vars, e_vars>>

\* lines 445-458: the final record of upload r
U_Complete(r) ==
    /\ u_pc[r] = "running"
    /\ processing_status' =
           [processing_status EXCEPT ![unique_id[r]] =
               [status |-> "complete", progress |-> 100, filename |-> "f",
                unique_id |-> unique_id[r]]]
    /\ u_pc' = [u_pc EXCEPT ![r] = "completed"]
    /\ UNCHANGED <<clock_second, unique_id, h_history, history_file, completed>>
    /\ UNCHANGED <<rl_vars, p_vars, g_vars, t_vars, f_vars, e_vars>>

\* load_analysis_history: [] when the file cannot be parsed
load_analysis_history == IF history_file.valid THEN history_file.entries ELSE <<>>

\* line 461 and lines 79-91: the record is read from the dict, the history is
\* loaded, the entry inserted in front, the list cut.  A record without the key
\* 'unique_id' raises KeyError, which reaches the except clause.
H_Load(r) ==
    /\ u_pc[r] = "completed"
    /\ LET analysis_data == processing_status[unique_id[r]]
       IN  IF analysis_data.status = "complete"
           THEN /\ h_history' = [h_history EXCEPT ![r] =
                        Take(<<analysis_data.unique_id>> \o load_analysis_history, HistoryCap)]
                /\ u_pc' = [u_pc EXCEPT ![r] = "loaded"]
                /\ UNCHANGED processing_status
           ELSE /\ processing_status' = [processing_status EXCEPT ![unique_id[r]] = ErrorRecord]
                /\ u_pc' = [u_pc EXCEPT ![r] = "done"]
                /\ UNCHANGED h_history
    /\ UNCHANGED <<clock_second, unique_id, history_file, completed>>
    /\ UNCHANGED <<rl_vars, p_vars, g_vars, t_vars, f_vars, e_vars>>

\* line 95: open(HISTORY_FILE, 'w') empties the file
H_Open(r) ==
    /\ u_pc[r] = "loaded"
    /\ history_file' = [valid |-> FALSE, entries |-> <<>>]
    /\ u_pc' = [u_pc EXCEPT ![r] = "writing"]
    /\ UNCHANGED <<clock_second, unique_id, processing_status, h_history, completed>>
    /\ UNCHANGED <<rl_vars, p_vars, g_vars, t_vars, f_vars, e_vars>>

\* line 96: json.dump(history, f), and the file is closed
H_Dump(r) ==
    /\ u_pc[r] = "writing"
    /\ history_file' = [valid |-> TRUE, entries |-> h_history[r]]
    /\ completed' = <<h_history[r][1]>> \o completed
    /\ u_pc' = [u_pc EXCEPT ![r] = "done"]
    /\ UNCHANGED <<clock_second, unique_id, processing_status, h_history>>
    /\ UNCHANGED <<rl_vars, p_vars, g_vars, t_vars, f_vars, e_vars>>

UNext ==
    \/ U_Tick
    \/ \E r \in Runs, filename \in UploadNames : Upload(r, filename)
    \/ \E r \in Runs : U_Fail(r)
    \/ \E r \in Runs : U_Complete(r)
    \/ \E r \in Runs : H_Load(r)
    \/ \E r \in Runs : H_Open(r)
    \/ \E r \in Runs : H_Dump(r)

InitUploads == UInit /\ RLIdle /\ PIdle /\ GIdle /\ TIdle /\ FIdle /\ EIdle

SpecUploads == InitUploads /\ [][UNext]_vars

-----------------------------------------------------------------------------
(* Properties of generate_content *)

Ended == rl_pc \in {"returned", "raised"}
TotalSlept == SumSeq([i \in 1..Len(sleep_log) |-> sleep_log[i].d])
LastAttemptEntry == attempt_log[Len(attempt_log)]
AllAttemptsRateLimited ==
    \A i \in 1..Len(attempt_log) :
        attempt_log[i].kind = "raises" /\ is_rate_limit(attempt_log[i].exc.text)

\* C1: without a max_attempts override, an invocation calls the model at most
\* max_retries + 1 times; when every attempt raises a rate-limit-classified error
\* it ends after exactly max_retries + 1 calls by re-raising the last error, having
\* slept at least max_retries * base_delay in total.
C1_AttemptsAndSleep ==
    ma_arg = None =>
        /\ Len(attempt_log) <= cfg.max_retries + 1
        /\ (Ended /\ AllAttemptsRateLimited) =>
               /\ Len(attempt_log) = cfg.max_retries + 1
               /\ rl_pc = "raised"
               /\ gc_result.kind = "raise"
               /\ gc_result.exc = LastAttemptEntry.exc
               /\ TotalSlept >= cfg.max_retries * cfg.base_delay

C1_Witness ==
    /\ ma_arg = None
    /\ cfg.max_retries = 2
    /\ rl_pc = "raised"
    /\ AllAttemptsRateLimited
    /\ Len(attempt_log) = 3

EmptyAttempts ==
    {i \in 1..Len(attempt_log) : attempt_log[i].kind \in {"empty_text", "no_response"}}
\* The except clause of attempt i has run
Handled(i) == i < Len(attempt_log) \/ rl_pc # "except"
SleepsOf(a) == {k \in 1..Len(sleep_log) : sleep_log[k].attempt = a /\ sleep_log[k].why # "pace"}

\* C22: a response with no textual payload is never returned as a success: it is a
\* failure of the other-transient class, followed by one exponential-backoff sleep
\* and another attempt while attempts remain, and raised to the caller when it was
\* the last attempt.
C22_EmptyResponseIsFailure ==
    /\ gc_result.kind = "return" => Len(attempt_log) \notin EmptyAttempts
    /\ \A i \in EmptyAttempts :
          LET e == attempt_log[i]
          IN  /\ e.exc.text = EmptyResponseText
              /\ ~is_rate_limit(e.exc.text)
              /\ (Handled(i) /\ e.attempt < max_attempts) =>
                    /\ \E k \in SleepsOf(e.attempt) :
                          /\ SleepsOf(e.attempt) = {k}
                          /\ sleep_log[k].why = "backoff"
                          /\ \E j \in JitterSet :
                                sleep_log[k].d =
                                    Min(cfg.initial_delay * Pow2(e.attempt) + j, cfg.max_delay)
                    /\ i < Len(attempt_log) \/ (rl_pc = "attempt" /\ attempt = e.attempt + 1)
              /\ (Handled(i) /\ e.attempt = max_attempts) =>
                    /\ i = Len(attempt_log)
                    /\ gc_result.kind = "raise"
                    /\ gc_result.exc = e.exc

\* C22 happens: an empty response was retried, and an empty response of the last
\* attempt was raised
C22_Witness ==
    /\ rl_pc = "raised"
    /\ Len(attempt_log) = 3
    /\ attempt_log[1].kind = "no_response"
    /\ attempt_log[2].kind = "empty_text"
    /\ attempt_log[3].kind = "empty_text"

\* C24: within one invocation the pacer runs once before each attempt with index
\* above 0, in order, and not before attempt 0; request_count has grown by the
\* number of retries and last_request_time is the time of the last retry's pacing,
\* both unchanged when the first attempt succeeded.
C24_PacedOncePerRetry ==
    LET n == Len(attempt_log)
    IN  rl_pc # "idle" =>
          /\ Len(pace_log) = IF n = 0 THEN 0 ELSE n - 1
          /\ \A i \in 1..Len(pace_log) : pace_log[i].attempt = i
          /\ \A i \in 1..n : attempt_log[i].attempt = i - 1
          /\ request_count = at_entry.request_count + Len(pace_log)
          /\ last_request_time = IF pace_log = <<>> THEN at_entry.last_request_time
                                 ELSE pace_log[Len(pace_log)].at
          /\ (rl_pc = "returned" /\ n = 1) =>
                /\ request_count = at_entry.request_count
                /\ last_request_time = at_entry.last_request_time

\* C24 happens: an invocation with two retries has ended
C24_Witness ==
    /\ rl_pc = "returned"
    /\ Len(attempt_log) = 3
    /\ request_count = 2

\* The five markers, and a text holding one of them in any letter case
Markers == {"429", "RESOURCE_EXHAUSTED", "quota", "rate limit", "too many requests"}
HoldsMarkerAnyCase(text) == \E m \in Markers : ContainsLower(text, Lower(m))
\* The except clause treated attempt a as a rate-limit failure
TreatedAsRateLimit(a) == \E k \in SleepsOf(a) : sleep_log[k].why = "rate_limit"

\* C25: a failed attempt is treated as a rate-limit failure exactly when its error
\* text holds one of the five markers, letter case ignored.
C25_CaseInsensitiveMarkers ==
    \A i \in 1..Len(attempt_log) :
        (Handled(i) /\ attempt_log[i].kind # "text") =>
            (TreatedAsRateLimit(attempt_log[i].attempt)
                <=> HoldsMarkerAnyCase(attempt_log[i].exc.text))

C30_NoSleepBeforeReraise ==
    \A k \in 1..Len(sleep_log) :
        sleep_log[k].why # "pace" => sleep_log[k].attempt < max_attempts

\* C32: an invocation with max_attempts = k, for any k >= 0, calls the model at
\* most k + 1 times, whatever max_retries is configured.
C32_MaxAttemptsOverrides ==
    ma_arg.some => Len(attempt_log) <= ma_arg.v + 1

-----------------------------------------------------------------------------
(* Properties of the orchestrators *)

Stage1Raised == Raised("generate_and_save") \/ Raised("Phase1Brainstorm")
Stage3Names == {"run_phase3", "lens_a", "lens_b", "lens_c", "generate_synthesis"}
Stage4Names == {"run_phase4", "generate_research_questions", "rank_and_select_questions",
                "generate_executive_summary"}
Stage2Names == {"run_phase2", "extract_knowledge_graph", "store_in_neo4j",
                "generate_phase2_summary"}
Stage3Artifacts == IF orch = "web" THEN phase3_results ELSE p3_local

\* C3: when Phase 1 raises, the run is over: no executor of Phase 2, 3 or 4 has
\* been or will be invoked, and the run is reported failed (web: status 'error';
\* cli: "Phase 1 failed" and return).
C3_Stage1Fatal ==
    Stage1Raised =>
        /\ p_pc = "done"
        /\ \A i \in 1..Len(exec_log) :
               exec_log[i].name \notin (Stage2Names \cup Stage3Names \cup Stage4Names)
        /\ phase1_brainstorm = "null"
        /\ orch = "web" => status.status = "error"
        /\ orch = "cli" => cli_report = "phase1_failed"

C3_Witness ==
    /\ orch = "cli"
    /\ Raised("generate_and_save")
    /\ p_pc = "done"

\* C4: no lens, synthesis or Phase 4 executor is invoked in a run whose Phase 2
\* summary is null.
C4_Stage3NeedsSummary ==
    \A i \in 1..Len(exec_log) :
        exec_log[i].name \in ({"lens_a", "lens_b", "lens_c", "generate_synthesis"}
                               \cup Stage4Names)
            => (phase2_results.present /\ phase2_results.summary # "null")

\* C5: generate_synthesis is invoked if and only if the three lens artifacts are
\* all non-null; with a null lens artifact the synthesis artifact stays null.
C5_SynthesisIffAllLenses ==
    LET a == Stage3Artifacts
        all == a.lens_a # "null" /\ a.lens_b # "null" /\ a.lens_c # "null"
        decided == Ran("lens_c") /\ p_pc \notin {"r3_synthesis", "w_synthesis"}
    IN  /\ Ran("generate_synthesis") => all
        /\ (decided /\ all) => Ran("generate_synthesis")
        /\ ~all => a.synthesis = "null"

C5_Witness ==
    /\ Ran("lens_c")
    /\ p_pc \in {"c_phase4", "done"}
    /\ Stage3Artifacts.lens_a = "text"
    /\ Stage3Artifacts.lens_b = "text"
    /\ Stage3Artifacts.lens_c = "null"
    /\ ~Ran("generate_synthesis")

\* C6: run_phase4 is invoked only in a run whose synthesis artifact is non-null;
\* with a null synthesis the run ends without any Phase 4 executor invoked.
C6_Stage4NeedsSynthesis ==
    /\ \A i \in 1..Len(exec_log) :
           exec_log[i].name \in Stage4Names =>
               (phase3_results.present /\ phase3_results.synthesis # "null")
    /\ (p_pc = "done" /\ phase3_results.synthesis = "null") => phase4_results = NoDict4

C6_Witness ==
    /\ orch = "cli"
    /\ p_pc = "done"
    /\ Ran("lens_c")
    /\ phase3_results.synthesis = "null"
    /\ ~Ran("run_phase4")

\* The terminal status a caller can read
RunStatus ==
    IF orch = "web"
    THEN CASE status.status = "complete" -> "Done"
           [] status.status = "error" -> "Failed"
           [] OTHER -> "Running"
    ELSE CASE cli_report = "completed" -> "Done"
           [] cli_report \in {"phase1_failed", "pipeline_failed"} -> "Failed"
           [] OTHER -> "Running"

ConfigErrorRaised ==
    \E i \in 1..Len(raised_log) :
        raised_log[i] \in {"Phase1Brainstorm", "Phase2ContextBuilder", "Phase3Distiller",
                          "Phase4Formulator", "makedirs", "process_file",
                          "save_analysis_to_history"}

OptionalStageFailedOrSkipped ==
    /\ ~ConfigErrorRaised
    /\ \/ Raised("generate_phase2_summary")
       \/ Raised("lens_a") \/ Raised("lens_b") \/ Raised("lens_c")
       \/ ~Ran("run_phase4")

\* C7: a finished run in which Phase 1 succeeded and a later stage failed or was
\* skipped has a terminal status that is neither Failed nor Done.
C7_PartiallyComplete ==
    (p_pc = "done" /\ phase1_brainstorm = "text" /\ OptionalStageFailedOrSkipped)
        => RunStatus \notin {"Failed", "Done", "Running"}

\* The executors whose artifact is in the run's results
Produced ==
    (IF phase1_brainstorm # "null" THEN {"generate_and_save"} ELSE {})
    \cup (IF phase2_results.graph_element # "null" THEN {"extract_knowledge_graph"} ELSE {})
    \cup (IF phase2_results.summary # "null" THEN {"generate_phase2_summary"} ELSE {})
    \cup {l \in {"lens_a", "lens_b", "lens_c"} :
            \/ (l = "lens_a" /\ Stage3Artifacts.lens_a # "null")
            \/ (l = "lens_b" /\ Stage3Artifacts.lens_b # "null")
            \/ (l = "lens_c" /\ Stage3Artifacts.lens_c # "null")}
    \cup (IF Stage3Artifacts.synthesis # "null" THEN {"generate_synthesis"} ELSE {})
    \cup (IF phase4_results.questions # "null" THEN {"generate_research_questions"} ELSE {})
    \cup (IF phase4_results.ranking # "null" THEN {"rank_and_select_questions"} ELSE {})
    \cup (IF phase4_results.summary # "null" THEN {"generate_executive_summary"} ELSE {})

\* C16: every executor that obtained its artifact from the remote model called it
\* through the rate limiter (rate_limited_request / generate_content of the
\* limiter), none by a direct call of the model.
C16_CallsThroughLimiter ==
    \A name \in Produced : ModelCallOf(name) = "rate_limited_request"

FatalConfigRaised ==
    \E i \in 1..Len(raised_log) :
        raised_log[i] \in {"Phase1Brainstorm", "Phase2ContextBuilder", "Phase3Distiller",
                          "Phase4Formulator"}

\* C17: once a constructor has raised a configuration error (no credentials, the
\* graph store unreachable), the run is over and is reported Failed, whichever
\* stage raised it.
C17_ConfigErrorAborts ==
    FatalConfigRaised => (p_pc = "done" /\ RunStatus = "Failed")

\* The executors whose artifact is a text (the graph element is no text: it goes
\* to the graph store, not to a file)
TextArtifacts == Produced \ {"extract_knowledge_graph"}

C19_StatusRecord ==
    orch = "web" =>
        /\ status.status \in {"processing", "complete", "error"}
        /\ status.phase # "absent"
        /\ status.progress \in 0..100
        /\ status.status = "error" => status.error # "absent"

\* C20: once the status of a run is 'complete' or 'error', no step changes it.
C20_TerminalStatusFrozen ==
    [][(orch = "web" /\ status.status \in {"complete", "error"})
          => status'.status = status.status]_vars

\* The records written from position i to position j all say 'processing'
ProcessingThroughout(i, j) == \A k \in i..j : status_log[k].status = "processing"

C36_WitnessRefused ==
    /\ orch = "web"
    /\ response.code = 400
    /\ status.status = "processing"
    /\ status.progress = 50

\* The thread of the run has returned and left a terminal status
RunEnded == p_pc = "done" /\ status.status \in {"complete", "error"}

\* C37: every run started by an upload eventually has status 'complete' or
\* 'error', its thread having returned, provided each stage call eventually
\* returns or raises.
C37_RunEventuallyEnds == (orch = "web" /\ status.status = "processing") ~> RunEnded

\* A run that went through every stage and ended 'complete', and one can see
\* that it started as 'processing'
C37_Witness ==
    /\ orch = "web"
    /\ RunEnded
    /\ status.status = "complete"
    /\ status_log[1].status = "processing"
    /\ raised_log = <<>>

\* How many times an executor has been invoked
TimesRan(name) == Cardinality({i \in 1..Len(exec_log) : exec_log[i].name = name})

\* C38: run_phase2 does not raise when the model or the storage fails: it
\* returns its dict, having attempted the summary exactly once whether the
\* extraction or the storage succeeded or failed, and the summary of the dict is
\* null exactly when the summary generation raised, whatever graph_element is.
C38_Phase2AbsorbsFailures ==
    Ran("run_phase2") =>
        /\ phase2_results.present
        /\ ~Raised("run_phase2")
        /\ TimesRan("extract_knowledge_graph") = 1
        /\ TimesRan("generate_phase2_summary") = 1
        /\ TimesRan("store_in_neo4j") = (IF Raised("extract_knowledge_graph") THEN 0 ELSE 1)
        /\ phase2_results.summary = "null" <=> Raised("generate_phase2_summary")
        /\ phase2_results.graph_element = "null" <=> Raised("extract_knowledge_graph")

\* The storage failed, the graph stays in the dict and the summary was made
C38_Witness ==
    /\ Ran("run_phase2")
    /\ Raised("store_in_neo4j")
    /\ phase2_results.graph_element = "graph"
    /\ phase2_results.summary = "text"

\* The extraction failed and the summary was still made
C38_WitnessNoGraph ==
    /\ Ran("run_phase2")
    /\ Raised("extract_knowledge_graph")
    /\ phase2_results.graph_element = "null"
    /\ phase2_results.summary = "text"

\* The extraction succeeded and the summary failed
C38_WitnessNoSummary ==
    /\ Ran("run_phase2")
    /\ ~Raised("extract_knowledge_graph")
    /\ phase2_results.graph_element = "graph"
    /\ phase2_results.summary = "null"

\* The Stage 3 executors invoked so far, in order
IsStage3Call(e) == e.name \in {"lens_a", "lens_b", "lens_c", "generate_synthesis"}
Stage3Calls ==
    LET calls == SelectSeq(exec_log, IsStage3Call)
    IN  [i \in 1..Len(calls) |-> calls[i].name]
Stage3Order == <<"lens_a", "lens_b", "lens_c", "generate_synthesis">>
InLenses == p_pc \in {"r3_lens_b", "r3_lens_c", "w_lens_b", "w_lens_c"}

\* C31: the Stage 3 executors are invoked at most once each and in the order lens
\* A, lens B, lens C, synthesis; once lens A has been attempted, all three lenses
\* are attempted, also after a lens raised, and a lens that raised left a null
\* sub-artifact.
C31_LensesInOrder ==
    /\ \E n \in 0..4 : Stage3Calls = SubSeq(Stage3Order, 1, n)
    /\ ~InLenses => Len(Stage3Calls) \in {0, 3, 4}
    /\ Raised("lens_a") => Stage3Artifacts.lens_a = "null"
    /\ Raised("lens_b") => Stage3Artifacts.lens_b = "null"
    /\ Raised("lens_c") => Stage3Artifacts.lens_c = "null"

\* C31 happens: lens A raised, lenses B and C were attempted and gave a text
C31_Witness ==
    /\ Raised("lens_a")
    /\ Stage3Calls = SubSeq(Stage3Order, 1, 3)
    /\ Stage3Artifacts.lens_b = "text"
    /\ Stage3Artifacts.lens_c = "text"

-----------------------------------------------------------------------------
(* Properties of _parse_graph_elements *)

Parsed == g_pc = "parsed"
NodeIds == {graph_element.nodes[i].id : i \in 1..Len(graph_element.nodes)}
NodeMatches == FindIter(node_pattern, llm_output, 1)
RelMatches == FindIter(rel_pattern, llm_output, 1)
HasCutDecl == \E k \in 1..Len(g_decls) : g_decls[k].k = "cut"

\* The (id, type) pairs written in a declaration, standalone or inside a relationship
Occurrences(decl) ==
    CASE decl.k = "node" -> <<[id |-> <<decl.a>>, type |-> <<decl.b>>]>>
      [] decl.k = "rel" -> <<[id |-> <<decl.a>>, type |-> <<decl.b>>],
                             [id |-> <<decl.c>>, type |-> <<decl.d>>]>>
      [] OTHER -> <<>>

RECURSIVE AllOccurrences(_)
AllOccurrences(decls) ==
    IF decls = <<>> THEN <<>> ELSE Occurrences(Head(decls)) \o AllOccurrences(Tail(decls))

FirstTypeOf(occ, id) ==
    occ[CHOOSE i \in 1..Len(occ) : occ[i].id = id /\ \A j \in 1..(i - 1) : occ[j].id # id].type

\* C8: in the GraphElement returned, the subject id and the object id of every
\* relationship are ids of nodes of the same element's node list.
C8_EndpointsAreNodes ==
    Parsed =>
        \A i \in 1..Len(graph_element.relationships) :
            /\ graph_element.relationships[i].subj.id \in NodeIds
            /\ graph_element.relationships[i].obj.id \in NodeIds

\* C8 happens: a text where one relationship match was kept and another dropped
C8_Witness ==
    /\ Parsed
    /\ Len(graph_element.relationships) > 0
    /\ Len(RelMatches) > Len(graph_element.relationships)

\* C9: the node list holds at most one node per id, and the type of that node is
\* the type of the first occurrence of the id: the first match of the node
\* pattern with that id, which in a text of complete declarations is the first
\* declaration that writes the id.
C9_FirstOccurrenceWins ==
    Parsed =>
        /\ \A i, j \in 1..Len(graph_element.nodes) :
                graph_element.nodes[i].id = graph_element.nodes[j].id => i = j
        /\ \A i \in 1..Len(graph_element.nodes) :
                LET n == graph_element.nodes[i]
                    first == {k \in 1..Len(NodeMatches) :
                                 /\ NodeMatches[k][1] = n.id
                                 /\ \A m \in 1..(k - 1) : NodeMatches[m][1] # n.id}
                IN  /\ first # {}
                    /\ \A k \in first : n.type = NodeMatches[k][2]
        /\ ~HasCutDecl =>
                LET occ == AllOccurrences(g_decls)
                IN  /\ NodeIds = {occ[k].id : k \in 1..Len(occ)}
                    /\ \A i \in 1..Len(graph_element.nodes) :
                           graph_element.nodes[i].type = FirstTypeOf(occ, graph_element.nodes[i].id)

\* C9 happens: id a declared with type X and later again with type Y
C9_Witness ==
    /\ Parsed
    /\ \E i, j \in 1..Len(g_decls) :
          /\ i < j
          /\ g_decls[i] = NodeDecl("a", "X")
          /\ g_decls[j] = NodeDecl("a", "Y")
    /\ \E i \in 1..Len(graph_element.nodes) :
          graph_element.nodes[i].id = <<"a">> /\ graph_element.nodes[i].type = <<"X">>

IsRelDecl(decl) == decl.k = "rel"
RelDecls == SelectSeq(g_decls, IsRelDecl)
\* Complete declarations only, every relationship endpoint declared standalone
WellFormedAndDeclared ==
    /\ ~HasCutDecl
    /\ \A k \in 1..Len(RelDecls) :
          \E i, j \in 1..Len(g_decls) :
              /\ g_decls[i].k = "node" /\ g_decls[i].a = RelDecls[k].a
              /\ g_decls[j].k = "node" /\ g_decls[j].a = RelDecls[k].c

StandaloneIds == {<<g_decls[k].a>> : k \in {m \in 1..Len(g_decls) : g_decls[m].k = "node"}}

\* C10: a relationship declaration with a subject or object id that no
\* standalone Node declaration of the text declares is not among the output
\* relationships, and the undeclared id is not among the output nodes.
C10_DanglingDropped ==
    (Parsed /\ ~HasCutDecl) =>
        \A k \in 1..Len(g_decls) :
            g_decls[k].k = "rel" =>
                \A id \in {<<g_decls[k].a>>, <<g_decls[k].c>>} :
                    id \notin StandaloneIds =>
                        /\ id \notin NodeIds
                        /\ ~\E i \in 1..Len(graph_element.relationships) :
                               /\ graph_element.relationships[i].subj.id = <<g_decls[k].a>>
                               /\ graph_element.relationships[i].obj.id = <<g_decls[k].c>>
                               /\ graph_element.relationships[i].type = <<g_decls[k].e>>

\* C11: for a text of complete node declarations and relationship declarations
\* whose endpoints are all declared, the output node ids are exactly the declared
\* ids and the output relationships are exactly the declared relationships, with
\* their type, direction and order of appearance.
C11_WellFormedText ==
    (Parsed /\ WellFormedAndDeclared) =>
        /\ NodeIds = StandaloneIds
        /\ Len(graph_element.relationships) = Len(RelDecls)
        /\ \A k \in 1..Len(RelDecls) :
              /\ graph_element.relationships[k].subj.id = <<RelDecls[k].a>>
              /\ graph_element.relationships[k].obj.id = <<RelDecls[k].c>>
              /\ graph_element.relationships[k].type = <<RelDecls[k].e>>

\* C11 happens: two declared nodes and a relationship between them
C11_Witness ==
    /\ Parsed
    /\ WellFormedAndDeclared
    /\ Len(graph_element.nodes) = 2
    /\ Len(RelDecls) = 1
    /\ Len(graph_element.relationships) = 1

C21_RelationshipsDeduplicated ==
    g_pc # "idle" =>
        \A i, j \in 1..Len(graph_element.relationships) :
            LET ri == graph_element.relationships[i]
                rj == graph_element.relationships[j]
            IN  (ri.subj.id = rj.subj.id /\ ri.obj.id = rj.obj.id /\ ri.type = rj.type)
                    => i = j

\* The relationship declarations written before every standalone declaration of
\* their two endpoints, both of which are declared later in the text
DeclaredAt(id) == {i \in 1..Len(g_decls) : g_decls[i].k = "node" /\ g_decls[i].a = id}
EarlyRelDecls ==
    {k \in 1..Len(g_decls) :
        /\ g_decls[k].k = "rel"
        /\ DeclaredAt(g_decls[k].a) # {}
        /\ DeclaredAt(g_decls[k].c) # {}
        /\ \A i \in DeclaredAt(g_decls[k].a) \cup DeclaredAt(g_decls[k].c) : i > k}
InOutput(decl) ==
    \E i \in 1..Len(graph_element.relationships) :
        /\ graph_element.relationships[i].subj.id = <<decl.a>>
        /\ graph_element.relationships[i].obj.id = <<decl.c>>
        /\ graph_element.relationships[i].type = <<decl.e>>
DeclaredOnce(k) == \A j \in 1..Len(g_decls) : g_decls[j] = g_decls[k] => j = k

\* C33 as stated: a relationship declaration written before the declarations of
\* both of its endpoint nodes is dropped, although the nodes are declared later.
C33_EarlyRelationshipDropped ==
    (Parsed /\ ~HasCutDecl) =>
        \A k \in EarlyRelDecls : DeclaredOnce(k) => ~InOutput(g_decls[k])

\* C33, corrected: extraction does not depend on the order of the declarations: a
\* relationship declaration written before the declarations of both of its
\* endpoint nodes is kept, as is one written after them.
C33_OrderIndependent ==
    (Parsed /\ ~HasCutDecl) =>
        \A k \in 1..Len(g_decls) :
            (g_decls[k].k = "rel" /\ DeclaredAt(g_decls[k].a) # {} /\ DeclaredAt(g_decls[k].c) # {})
                => InOutput(g_decls[k])

\* C33 happens: a relationship, then the declarations of its two endpoints
C33_Witness ==
    /\ Parsed
    /\ g_decls = <<RelDecl("a", "X", "b", "X", "r", ""), NodeDecl("a", "X"), NodeDecl("b", "X")>>
    /\ EarlyRelDecls = {1}
    /\ Len(graph_element.relationships) = 1

-----------------------------------------------------------------------------
(* Properties of get_rate_limiter *)

\* The documented defaults: 2 s, 300 s, 12 s, 5 retries, 1800 s
DocumentedDefault(k) ==
    CASE k = "initial_delay" -> 20
      [] k = "max_delay" -> 3000
      [] k = "base_delay" -> 120
      [] k = "max_retries" -> 5
      [] k = "total_timeout" -> 18000

\* C23: the limiter that get_rate_limiter returns for a call with keyword
\* overrides has, for each of the five settings, the value of the keyword when it
\* was given and the documented default otherwise, whatever limiter existed before.
C23_OverridesOnDefaults ==
    (f_returned.present /\ DOMAIN f_kwargs # {}) =>
        /\ DOMAIN f_returned.settings = Keys
        /\ \A k \in Keys :
              f_returned.settings[k] =
                  IF k \in DOMAIN f_kwargs THEN f_kwargs[k] ELSE DocumentedDefault(k)

\* C23 happens: a call with overrides is made while a limiter with another
\* configuration exists
C23_Witness ==
    /\ f_prev.present
    /\ f_prev.settings["max_retries"] = 3
    /\ f_prev.settings["base_delay"] = 150
    /\ DOMAIN f_kwargs = {"max_retries", "initial_delay"}
    /\ f_kwargs["max_retries"] = 0
    /\ f_returned.present

\* C39: get_rate_limiter() without overrides returns the existing global limiter,
\* its request_count and last_request_time as they were; a call with overrides,
\* which is what rate_limited_request makes every time, puts a fresh limiter with
\* request_count 0 and last_request_time 0 in its place; so after a
\* rate_limited_request the global holds the pacing of that request alone.
C39_OverridesResetPacing ==
    /\ (f_call.op = "get_rate_limiter" /\ DOMAIN f_kwargs = {} /\ f_prev.present)
           => f_returned = f_prev /\ rate_limiter = f_prev
    /\ (f_call.op \in {"get_rate_limiter", "rate_limited_request"} /\ DOMAIN f_kwargs # {})
           => /\ f_returned.present
              /\ f_returned.request_count = 0
              /\ f_returned.last_request_time = 0
              /\ rate_limiter.settings = f_returned.settings
    /\ f_call.op = "rate_limited_request"
           => /\ DOMAIN f_kwargs # {}
              /\ rate_limiter.request_count = f_call.retries
              /\ f_call.retries = 0 => rate_limiter.last_request_time = 0

\* C39 happens: a rate_limited_request found a global limiter that had paced a
\* request, and left one that has paced none
C39_Witness ==
    /\ f_call.op = "rate_limited_request"
    /\ f_prev.present
    /\ f_prev.request_count = 1
    /\ f_prev.last_request_time > 0
    /\ rate_limiter.request_count = 0
    /\ rate_limiter.last_request_time = 0

\* A call without overrides gave back a limiter that had paced a request
C39_WitnessKept ==
    /\ f_call.op = "get_rate_limiter"
    /\ DOMAIN f_kwargs = {}
    /\ f_returned.request_count = 1
    /\ f_returned.last_request_time > 0

-----------------------------------------------------------------------------
(* Properties of _extract_retry_delay and _calculate_delay *)

\* The patterns in the order of their priority, the "<N> seconds" phrase last
PriorityOrder ==
    << "\"retryDelay\": \"Ns\"", "\"retryDelay\": N", "retryAfter: N", "Retry-After: N",
       "N seconds" >>
\* The positions of the text that pattern k matches, letter case ignored
MatchesOf(k, text) == {i \in 1..Len(text) : Lower(text[i].w) = Lower(PriorityOrder[k])}
Matching(text) == {k \in 1..Len(PriorityOrder) : MatchesOf(k, text) # {}}

\* C27: the extractor returns the value of a match of the highest-priority
\* pattern that matches somewhere in the text, wherever the matches of the
\* patterns of lower priority are, and returns no suggestion only when no pattern
\* matches.
C27_HighestPriorityWins ==
    fn_pc = "extracted" =>
        LET ks == Matching(err_message)
        IN  IF ks = {} THEN ~fn_result.delay.some
            ELSE LET top == CHOOSE k \in ks : \A m \in ks : k <= m
                 IN  /\ fn_result.delay.some
                     /\ \E i \in MatchesOf(top, err_message) :
                           fn_result.delay.v = err_message[i].n

\* C27 happens: the quoted retryDelay comes last in a text that starts with the
\* seconds phrase and a Retry-After
C27_Witness ==
    /\ fn_pc = "extracted"
    /\ Len(err_message) = 3
    /\ err_message[1].w = "N seconds"
    /\ err_message[2].w = "Retry-After: N"
    /\ err_message[3].w = "\"retryDelay\": \"Ns\""
    /\ fn_result.delay = Some(30)

\* C28: the wait after an other-transient failure at attempt index a is
\* min(initial_delay * 2^a + j, max_delay) for a jitter j between a tenth and nine
\* tenths of initial_delay.
C28_JitterScalesWithInitialDelay ==
    fn_pc = "calculated" =>
        \E j \in (cfg.initial_delay \div 10)..((9 * cfg.initial_delay) \div 10) :
            fn_result.wait = Min(cfg.initial_delay * Pow2(arg_attempt) + j, cfg.max_delay)

\* C29: for every attempt index the delay is at most max_delay and at least
\* min(initial_delay * 2^a, max_delay), and the delay before jitter does not
\* decrease from one attempt index to the next.
C29_BoundedAndMonotone ==
    fn_pc = "calculated" =>
        /\ fn_result.wait <= cfg.max_delay
        /\ fn_result.wait >= Min(cfg.initial_delay * Pow2(arg_attempt), cfg.max_delay)
        /\ \A a \in 0..arg_attempt : exponential_backoff(a) <= exponential_backoff(a + 1)
        /\ \A a \in 0..arg_attempt, j \in JitterSet :
              Min(exponential_backoff(a), cfg.max_delay) <= calculate_delay(a + 1, j)

\* C29 happens: a delay below the cap and a delay cut to the cap
C29_Witness ==
    /\ fn_pc = "calculated"
    /\ arg_attempt = MaxAttemptIndex
    /\ cfg.max_delay = 100
    /\ fn_result.wait = 100
    /\ calculate_delay(0, fn_result.jitter) < 100

-----------------------------------------------------------------------------
(* Properties of the web server *)

Saving == {r \in Runs : u_pc[r] \in {"loaded", "writing"}}
Uploaded == {r \in Runs : u_pc[r] # "none"}

\* C35: no two uploads have the same unique_id.
C35_UniqueIdsDistinct ==
    \A r1, r2 \in Uploaded : r1 # r2 => unique_id[r1] # unique_id[r2]

\* C34: whenever no save is in progress, the history file holds the entries of
\* the runs saved so far, most recently saved first, cut to the 10 most recent:
\* no more than 10, and none of the 10 most recent missing.  Stated for uploads
\* that all have a unique_id of their own.
C34_HistoryKeepsLastTen ==
    (Saving = {} /\ \A r1, r2 \in Uploaded : r1 # r2 => unique_id[r1] # unique_id[r2]) =>
        /\ history_file.valid
        /\ history_file.entries = Take(completed, HistoryCap)

-----------------------------------------------------------------------------
(* Properties of threads sharing a limiter *)

InFlight == {t \in Threads : t_pc[t] = "in_call"}

\* C13: any two successive completions of _enforce_request_delay on one shared
\* instance, by whichever threads, record last-call times at least base_delay
\* apart.
C13_AcquireSpacing ==
    \A i \in 1..(Len(acquire_log) - 1) :
        acquire_log[i + 1] - acquire_log[i] >= cfg.base_delay

\* C14: at most one model request issued through a shared instance is in flight.
C14_OneInFlight == Cardinality(InFlight) <= 1

\* C15: any two consecutive model calls made through the limiter start at least
\* base_delay apart.
C15_CallSpacing ==
    \A i \in 1..(Len(call_log) - 1) :
        call_log[i + 1].at - call_log[i].at >= cfg.base_delay

====
